---- MODULE Spec2Model ----
(***************************************************************************)
(* Restart orchestration core of ClaudeCodeLooper: RestartController with  *)
(* its TimingManager (countdown registry), ProcessMonitor (supervisor),    *)
(* TaskQueueManager and the per-session TaskCompletionMonitor.             *)
(*                                                                         *)
(* Every handler of the code is a pure operator over a record `c` holding  *)
(* the whole program state, so that a handler which calls other handlers   *)
(* (a completion callback that restarts, a restart that dispatches the     *)
(* queue) is the composition of their operators.  An action applies one    *)
(* handler to the current state.                                           *)
(***************************************************************************)
EXTENDS Integers, Sequences, FiniteSets, TLC

\* ------------------------------------------------------------------ bounds
MaxSessions   == 1      \* session ids 1..MaxSessions
MaxPeriods    == 2      \* waiting periods ever created
MaxTime       == 2      \* wall clock runs 0..MaxTime
Cooldown      == 1      \* ticks of one cooldown (stands for the 5.0 hour default)
LongCooldown  == 2      \* a configured cooldown other than the default
MaxDetections == 2      \* cap of a session's detection counter
MaxLaunches   == 4      \* launch attempts ever made (pids 1..MaxLaunches)
BufCap        == 1      \* lines an output queue holds (output_buffer_size)
MaxTasks      == 3      \* queued tasks ever enqueued
MaxWords      == 3      \* words of a one-line text
MaxBlockWords == 1      \* words of each line of a two-line text
MaxPayload    == 2      \* distinct state documents handed to save_state
MaxLaterSessions == 1   \* sessions started after all sessions were stopped

\* ------------------------------------------------------- program constants
DetectLines == 10       \* lines pulled per session by the detection pass
TaskLines   == 5        \* lines pulled per session by the task-completion pass
history_cap == 2        \* detection events that _save_current_state keeps (100)

SessionIds == 1..MaxSessions

\* The ids of the later sessions follow those of the first ones.
LastSession   == MaxSessions + MaxLaterSessions
LaterSessions == (MaxSessions + 1)..LastSession
AllSessionIds == 1..LastSession
PeriodIds  == 1..MaxPeriods
CooldownChoices == {Cooldown, LongCooldown}

\* check_frequency_seconds (60) and clock_drift_tolerance_seconds (30) are
\* both less than half a tick of the clock.
check_frequency       == 0
clock_drift_tolerance == 0
NoPeriod   == 0         \* waiting_period_id = None
NoSession  == 0
max_backups == 2         \* config.backup_count (default 3)

\* Output lines, by what the pattern engine and the task monitor make of them:
\* "limit" matches a detection pattern, "work" a task start pattern, "done" a
\* task completion pattern.
Lines == {"limit", "work", "done"}

VARIABLES
    now,              \* datetime.now()
    sess,             \* MonitoringSession objects, by session id
    active_sessions,  \* RestartController.active_sessions (keys, insertion order)
    periods,          \* WaitingPeriod objects, by period id
    waiting_periods,  \* RestartController.waiting_periods (keys)
    active_periods,   \* TimingManager.active_periods (keys)
    callbacks,        \* TimingManager.completion_callbacks (keys)
    state,            \* RestartController.state
    restart_count,    \* RestartController.restart_count
    error_count,      \* RestartController.error_count
    detection_events, \* len(RestartController.detection_events)
    task_monitors,    \* RestartController.task_monitors: status by session id
    monitored,        \* ProcessMonitor.monitored_processes (keys)
    handles,          \* ProcessLauncher._process_handles: process state by session id
    out,              \* OutputCapture.output_queues: queued lines by session id
    archived,         \* ProcessMonitor._archived_output
    crash_events,     \* ProcessMonitor._crash_events
    launches,         \* launch attempts so far (a launched process takes the number as pid)
    task_queue,       \* TaskQueueManager._tasks
    ntasks,           \* tasks enqueued so far (the last task id)
    sent,             \* inputs written to the processes' stdin, in order
    emitted,          \* events triggered by the last handler
    cb_calls,         \* times each period's completion callback was invoked
    returned,         \* return value of the check_waiting_periods of the last step
    checked,          \* the last step ran check_waiting_periods
    deferred,         \* sessions with a detection put off for a task in progress
    monitoring_active,\* TimingManager.monitoring_active (its thread is alive)
    running,          \* RestartController.running (the control loop is alive)
    loop,             \* position of the control loop thread
    state_file,       \* the persisted state file (and the StateManager's cache)
    default_cooldown_hours, \* TimingManager.default_cooldown_hours (from the config)
    last_clock_check, \* TimingManager.last_clock_check
    clock_drift_events, \* TimingManager.clock_drift_events: drift of each, in order
    pd,               \* the PatternDetector: its configuration, input and results
    fs,               \* the StateManager: its files and the threads in save_state
    lk,               \* the threads that hold RestartController._lock and TimingManager._lock
    threads,          \* the timing thread, and a control-loop thread that a stop gave up waiting for
    replaced,         \* live child processes whose handle a later launch of the session replaced
    oc                \* the OutputCapture: the keys of output_queues, and a writer about to inject

vars == <<now, sess, active_sessions, periods, waiting_periods, active_periods,
          callbacks, state, restart_count, error_count, detection_events,
          task_monitors, monitored, handles, out, archived, crash_events,
          launches, task_queue, ntasks, sent, emitted, cb_calls, returned,
          checked, deferred, monitoring_active, running, loop, state_file,
          default_cooldown_hours, last_clock_check, clock_drift_events, pd, fs, lk, threads, replaced, oc>>

\* The whole state as one record, for the handlers to transform.
Pack ==
    [now |-> now, sess |-> sess, active_sessions |-> active_sessions,
     periods |-> periods, waiting_periods |-> waiting_periods,
     active_periods |-> active_periods, callbacks |-> callbacks,
     state |-> state, restart_count |-> restart_count,
     error_count |-> error_count, detection_events |-> detection_events,
     task_monitors |-> task_monitors, monitored |-> monitored,
     handles |-> handles, out |-> out, archived |-> archived,
     crash_events |-> crash_events, launches |-> launches,
     task_queue |-> task_queue, ntasks |-> ntasks, sent |-> sent,
     emitted |-> emitted, cb_calls |-> cb_calls, returned |-> returned,
     checked |-> checked, deferred |-> deferred,
     monitoring_active |-> monitoring_active, running |-> running, loop |-> loop,
     state_file |-> state_file,
     default_cooldown_hours |-> default_cooldown_hours,
     last_clock_check |-> last_clock_check,
     clock_drift_events |-> clock_drift_events, pd |-> pd,
     fs |-> fs, lk |-> lk, threads |-> threads, replaced |-> replaced, oc |-> oc]

\* The handlers' result becomes the next state; the result is computed once.
Unpack(c) ==
    \E d \in {c} :
        /\ now' = d.now
        /\ sess' = d.sess
        /\ active_sessions' = d.active_sessions
        /\ periods' = d.periods
        /\ waiting_periods' = d.waiting_periods
        /\ active_periods' = d.active_periods
        /\ callbacks' = d.callbacks
        /\ state' = d.state
        /\ restart_count' = d.restart_count
        /\ error_count' = d.error_count
        /\ detection_events' = d.detection_events
        /\ task_monitors' = d.task_monitors
        /\ monitored' = d.monitored
        /\ handles' = d.handles
        /\ out' = d.out
        /\ archived' = d.archived
        /\ crash_events' = d.crash_events
        /\ launches' = d.launches
        /\ task_queue' = d.task_queue
        /\ ntasks' = d.ntasks
        /\ sent' = d.sent
        /\ emitted' = d.emitted
        /\ cb_calls' = d.cb_calls
        /\ returned' = d.returned
        /\ checked' = d.checked
        /\ deferred' = d.deferred
        /\ monitoring_active' = d.monitoring_active
        /\ running' = d.running
        /\ loop' = d.loop
        /\ state_file' = d.state_file
        /\ default_cooldown_hours' = d.default_cooldown_hours
        /\ last_clock_check' = d.last_clock_check
        /\ clock_drift_events' = d.clock_drift_events
        /\ pd' = d.pd
        /\ fs' = d.fs
        /\ lk' = d.lk
        /\ threads' = d.threads
        /\ replaced' = d.replaced
        /\ oc' = d.oc

\* ------------------------------------------------------------------- locks
\* RestartController._lock (ctl) and TimingManager._lock (tm), both
\* threading.RLock: the thread that holds each; `stopping` is the argument of
\* the stop_monitoring call that holds ctl.
NoLocks == [ctl |-> "none", tm |-> "none", stopping |-> NoSession]

\* ----------------------------------------------------------------- threads
\* No control-loop thread
IdleLoop == [phase |-> "idle", todo |-> <<>>, cur |-> NoSession]

\* `timing` is the position of TimingManager.monitoring_thread: "none" when
\* no such thread is alive, "turn" before the checks of a turn of
\* _monitoring_loop, "test" before the test of active_periods that ends the
\* turn.  `old` is the position of a control-loop thread that is still alive
\* after _stop_controller stopped waiting for it.
NoThreads == [timing |-> "none", old |-> IdleLoop, restart |-> NoSession]

\* A thread that puts lines into an output queue: where it is in its put, and
\* the line it holds.
NoWriter == [phase |-> "none", line |-> "none"]

\* OutputCapture.output_queues holds a queue for no session, no reader thread
\* (_capture_output) runs, and no thread is inside inject_output

NoCapture == [queues |-> {}, inject |-> NoSession,
              reader |-> [s \in AllSessionIds |-> NoWriter],
              writer |-> [s \in AllSessionIds |-> NoWriter]]

\* ----------------------------------------------------------------- helpers
Range(q) == {q[i] : i \in 1..Len(q)}

\* duration_hours=None
NoDuration == 0

\* LimitDetectionEvent.cooldown_duration_hours: its default, which nothing sets
cooldown_duration_hours == Cooldown

Take(q, n) == IF Len(q) <= n THEN q ELSE SubSeq(q, 1, n)

Drop(q, n) == IF Len(q) <= n THEN <<>> ELSE SubSeq(q, n + 1, Len(q))

LastN(q, n) == IF Len(q) <= n THEN q ELSE SubSeq(q, Len(q) - n + 1, Len(q))

RemoveSeq(q, x) == SelectSeq(q, LAMBDA y : y # x)

Emit(c, ev) == [c EXCEPT !.emitted = @ \cup {ev}]

\* ------------------------------------------------- MonitoringSession model
NewSession ==
    [status |-> "none", claude_process_id |-> 0, detection_count |-> 0,
     waiting_period_id |-> NoPeriod, error_count |-> 0, last_error |-> ""]

\* MonitoringSession.start_monitoring (raises unless inactive; a session is
\* constructed inactive right before this call)
session_start_monitoring(se, pid) ==
    [se EXCEPT !.status = "active", !.claude_process_id = pid]

session_stop_monitoring(se) == [se EXCEPT !.status = "stopped"]

mark_crashed(se) == [se EXCEPT !.status = "stopped"]

\* raises ValueError unless the session is active
enter_waiting_period(se, p) ==
    [se EXCEPT !.status = "waiting", !.waiting_period_id = p,
               !.detection_count = @ + 1]

\* raises ValueError unless the session is waiting
resume_from_waiting(se) ==
    [se EXCEPT !.status = "active", !.waiting_period_id = NoPeriod]

record_error_uncounted(se, msg) == [se EXCEPT !.last_error = msg]

record_error(se, msg) ==
    [se EXCEPT !.error_count = @ + 1, !.last_error = msg]

\* ----------------------------------------------------- WaitingPeriod model
\* `forwarded` is history: the seconds the period was fast-forwarded by.
NewPeriod ==
    [status |-> "none", start_time |-> 0, end_time |-> 0, session_id |-> NoSession,
     duration_hours |-> Cooldown, forwarded |-> 0]

start_waiting(pe, t) ==
    [pe EXCEPT !.status = "active", !.start_time = t,
               !.end_time = t + pe.duration_hours]

is_expired(pe, t) == pe.status = "active" /\ t >= pe.end_time

complete(pe) == [pe EXCEPT !.status = "completed"]

cancel_never_raises(pe) == FALSE

\* WaitingPeriod.cancel raises ValueError when the period is completed
cancel_raises(pe) == pe.status = "completed"

cancel(pe) == IF cancel_raises(pe) THEN pe ELSE [pe EXCEPT !.status = "cancelled"]

\* WaitingPeriod.check_and_complete: TRUE when this call completes the period
check_and_complete(pe, t) == pe.status = "active" /\ is_expired(pe, t)

\* ---------------------------------------------- TaskCompletionMonitor model
InProgress == {"task_detected", "waiting_completion"}

is_task_in_progress(st) == st \in InProgress

process_output_line(st, line) ==
    IF st = "monitoring"
    THEN (IF line = "work" THEN "task_detected" ELSE st)
    ELSE IF st \in InProgress
         THEN (IF line = "done" THEN "completed" ELSE st)
         ELSE st

RECURSIVE process_output_lines(_, _)
process_output_lines(st, lines) ==
    IF lines = <<>> THEN st
    ELSE process_output_lines(process_output_line(st, Head(lines)), Tail(lines))

set_task_in_progress(st, on) ==
    IF on THEN "waiting_completion" ELSE "completed"

\* should_wait_for_completion: `age` is what the clock says about the task,
\* "fresh" (recent activity), "stale" (no activity for the grace period) or
\* "timeout" (running longer than timeout_seconds).  Returns the pair
\* <<answer, new status>>.
should_wait_for_completion(st, age) ==
    IF ~is_task_in_progress(st) THEN <<FALSE, st>>
    ELSE IF age = "timeout" THEN <<FALSE, "timeout">>
    ELSE IF age = "stale" THEN <<FALSE, "completed">>
    ELSE <<TRUE, st>>

Ages == {"fresh", "stale", "timeout"}

\* ------------------------------------------------------------ OutputCapture
\* put_nowait, and on queue.Full drop the oldest line and put again
put_line(q, line) ==
    IF Len(q) < BufCap THEN Append(q, line) ELSE Append(Tail(q), line)

\* OutputCapture.get_recent_output drains up to n lines: <<lines, rest>>
drain(q, n) == <<Take(q, n), Drop(q, n)>>

\* ------------------------------------------------------------ ProcessMonitor
Live(h) == h = "running"

record_crash_event(c, s, pid, code) ==
    IF \E i \in 1..Len(c.crash_events) :
          c.crash_events[i].session_id = s /\ c.crash_events[i].exit_code = code
    THEN c
    ELSE [c EXCEPT !.crash_events =
             Append(@, [session_id |-> s, pid |-> pid, exit_code |-> code])]

\* _cleanup_session: archive what is queued, drop the queue and the tracking
cleanup_session(c, s) ==
    [c EXCEPT !.archived[s] = IF c.out[s] # <<>> THEN c.out[s] ELSE @,
              !.out[s] = <<>>,
              !.oc.queues = @ \ {s},
              !.oc.reader[s] = NoWriter,
              !.monitored[s] = 0]

\* ProcessLauncher.stop_process followed by _cleanup_session, as in
\* _stop_single_process: FALSE when the session is not tracked
stop_single_process(c, s) ==
    IF c.monitored[s] = 0 THEN c
    ELSE cleanup_session([c EXCEPT !.handles[s] = "none"], s)

\* What _stop_single_process returns: False for a session that is not in
\* monitored_processes, True after the launcher stopped the process or
\* reported it gone.
stop_single_process_result(c, s) == c.monitored[s] # 0

refresh_one(c, s) ==
    IF c.monitored[s] = 0 THEN c
    ELSE IF c.handles[s] = "running" THEN c
    ELSE IF c.handles[s] = "none" THEN cleanup_session(c, s)
    ELSE LET c1 == IF c.handles[s] = "deadN"
                   THEN record_crash_event(c, s, c.monitored[s], "N")
                   ELSE c
         IN cleanup_session([c1 EXCEPT !.handles[s] = "none"], s)

RECURSIVE refresh_from(_, _)
refresh_from(c, s) ==
    IF s > LastSession THEN c ELSE refresh_from(refresh_one(c, s), s + 1)

\* _refresh_process_states
refresh_process_states(c) == refresh_from(c, 1)

\* ProcessMonitor.get_crash_events: refresh, then the list as it stands
get_crash_events(c) == refresh_process_states(c)

\* ProcessMonitor.get_recent_output: <<lines, state afterwards>>
get_recent_output(c, s, n) ==
    LET c1 == refresh_process_states(c) IN
    IF c1.monitored[s] = 0
    THEN <<LastN(c1.archived[s], n), c1>>
    ELSE LET d == drain(c1.out[s], n)
         IN <<d[1], [c1 EXCEPT !.out[s] = d[2]]>>

\* ProcessMonitor.clear_output
clear_output(c, s) ==
    IF c.monitored[s] = 0 THEN c ELSE [c EXCEPT !.out[s] = <<>>]

\* Launch outcomes: the process starts; the command is not found; the process
\* exits non-zero within the grace window (its handle is already stored).
LaunchOutcomes == {"ok", "notfound", "exited"}

\* ProcessMonitor.start_monitoring: <<started, state afterwards>>
\* ProcessLauncher.launch_process stores the new handle under the session id;
\* a live process whose handle was stored there is no longer reachable
store_handle(c, s, h) ==
    [c EXCEPT !.launches = @ + 1,
              !.replaced[s] = IF Live(c.handles[s]) THEN @ + 1 ELSE @,
              !.handles[s] = h]

pm_start_monitoring(c, s, outcome) ==
    LET c1 == refresh_process_states(c) IN
    IF c1.monitored[s] # 0 THEN <<FALSE, c1>>
    ELSE IF outcome = "ok"
    THEN IF s \in c1.oc.queues
         THEN \* start_capture raises: a queue exists for the session
              <<FALSE, cleanup_session(store_handle(c1, s, "running"), s)>>
         ELSE <<TRUE, [store_handle(c1, s, "running")
                          EXCEPT !.monitored[s] = c1.launches + 1,
                                 !.oc.queues = @ \cup {s},
                                 !.oc.reader[s] = [NoWriter EXCEPT !.phase = "read"],
                                 !.out[s] = <<>>]>>
    ELSE IF outcome = "exited"
    THEN <<FALSE, cleanup_session(store_handle(c1, s, "deadN"), s)>>
    ELSE <<FALSE, cleanup_session([c1 EXCEPT !.launches = @ + 1], s)>>

\* ProcessMonitor.send_input: TRUE when the write reached a live process
send_input_ok(c, s) == Live(c.handles[s])

\* ------------------------------------------------------------- TaskQueueManager
\* A queued task: its id and which optional parts it carries.
TaskShapes ==
    {[persona |-> FALSE, guideline |-> FALSE, notes |-> FALSE, post |-> 0],
     [persona |-> TRUE, guideline |-> TRUE, notes |-> TRUE, post |-> 1]}

add_task(q, task) == Append(q, task)

\* remove_indices for one 1-based index
remove_index(q, i) ==
    IF i \in 1..Len(q) THEN SubSeq(q, 1, i - 1) \o SubSeq(q, i + 1, Len(q)) ELSE q

pop_all(q) == <<q, <<>>>>

prepend_dropping(q, tasks) == q

prepend(q, tasks) == IF tasks # <<>> THEN tasks \o q ELSE q

send_sequence_description_first(task) ==
    <<[task |-> task.id, part |-> "description"]>>
    \o (IF task.persona THEN <<[task |-> task.id, part |-> "persona"]>> ELSE <<>>)
    \o (IF task.guideline THEN <<[task |-> task.id, part |-> "guideline"]>> ELSE <<>>)
    \o (IF task.notes THEN <<[task |-> task.id, part |-> "notes"]>> ELSE <<>>)
    \o (IF task.post > 0 THEN <<[task |-> task.id, part |-> "post"]>> ELSE <<>>)

\* The discrete writes _execute_task_queue makes for one task, in order.
send_sequence(task) ==
    (IF task.persona THEN <<[task |-> task.id, part |-> "persona"]>> ELSE <<>>)
    \o (IF task.guideline THEN <<[task |-> task.id, part |-> "guideline"]>> ELSE <<>>)
    \o (IF task.notes THEN <<[task |-> task.id, part |-> "notes"]>> ELSE <<>>)
    \o <<[task |-> task.id, part |-> "description"]>>
    \o (IF task.post > 0 THEN <<[task |-> task.id, part |-> "post"]>> ELSE <<>>)

RECURSIVE total_messages(_)
total_messages(q) ==
    IF q = <<>> THEN 0 ELSE Len(send_sequence(Head(q))) + total_messages(Tail(q))

\* ---------------------------------------------------------------- environment
\* What the environment does to one restart: how the launch ends, and after
\* how many accepted writes the new process dies (-1: it stays alive), and how.
Envs(c) ==
    {[launch |-> "notfound", budget |-> -1, code |-> "deadN"],
     [launch |-> "exited", budget |-> -1, code |-> "deadN"],
     [launch |-> "ok", budget |-> -1, code |-> "deadN"]}
    \cup {[launch |-> "ok", budget |-> b, code |-> k] :
            b \in 0..(total_messages(c.task_queue) - 1), k \in {"dead0", "deadN"}}

\* ---------------------------------------------------------- persistence
\* No state file on disk (and None in the StateManager's cache).
NoFile == [missing |-> TRUE]

\* datetime.isoformat and datetime.fromisoformat
isoformat(t) == <<"iso", t>>

fromisoformat(x) == x[2]

\* MonitoringSession.to_dict / from_dict (the status is written as its value
\* and read back as the value; the computed uptime is dropped on reading)
session_to_dict(s, se) ==
    [session_id |-> s, status |-> se.status,
     claude_process_id |-> se.claude_process_id,
     detection_count |-> se.detection_count,
     waiting_period_id |-> se.waiting_period_id,
     error_count |-> se.error_count, last_error |-> se.last_error]

session_from_dict(d) ==
    [status |-> d.status, claude_process_id |-> d.claude_process_id,
     detection_count |-> d.detection_count,
     waiting_period_id |-> d.waiting_period_id,
     error_count |-> d.error_count, last_error |-> d.last_error]

\* WaitingPeriod.to_dict / from_dict (the computed fields are dropped on
\* reading)
period_to_dict(p, pe) ==
    [period_id |-> p, status |-> pe.status,
     start_time |-> isoformat(pe.start_time),
     duration_hours |-> pe.duration_hours,
     end_time |-> isoformat(pe.end_time),
     session_id |-> pe.session_id]

period_from_dict(d) ==
    [status |-> d.status, start_time |-> fromisoformat(d.start_time),
     end_time |-> fromisoformat(d.end_time), session_id |-> d.session_id,
     duration_hours |-> d.duration_hours, forwarded |-> 0]

\* QueuedTask.to_dict / from_dict
task_to_dict(task) ==
    [task_id |-> task.id, persona_prompt |-> task.persona,
     guideline_prompt |-> task.guideline, notes |-> task.notes,
     post_commands |-> task.post]

task_from_dict(d) ==
    [id |-> d.task_id, persona |-> d.persona_prompt,
     guideline |-> d.guideline_prompt, notes |-> d.notes,
     post |-> d.post_commands]

\* The state_data of _save_current_state: the sessions in dict order, the
\* periods of the controller's registry, the detection events (fewer than
\* the 100 that are kept), the statistics and the queue.
state_data(c) ==
    [sessions |-> [i \in 1..Len(c.active_sessions) |->
                     session_to_dict(c.active_sessions[i],
                                     c.sess[c.active_sessions[i]])],
     waiting_periods |-> {period_to_dict(p, c.periods[p]) : p \in c.waiting_periods},
     detection_events |-> IF c.detection_events < history_cap
                          THEN c.detection_events ELSE history_cap,
     statistics |-> [restart_count |-> c.restart_count,
                     error_count |-> c.error_count, state |-> c.state],
     task_queue |-> [i \in 1..Len(c.task_queue) |-> task_to_dict(c.task_queue[i])]]

\* _save_current_state with StateManager.save_state(state_data)
save_current_state(c) == [c EXCEPT !.state_file = state_data(c)]

\* StateManager.load_state: the data of the file, or None
load_state(c) == c.state_file

\* RestartController._apply_state_data
apply_state_data(c, data) ==
    LET ids == [i \in 1..Len(data.sessions) |-> data.sessions[i].session_id]
        kept == {d \in data.waiting_periods :
                   /\ period_from_dict(d).status = "active"
                   /\ ~is_expired(period_from_dict(d), c.now)}
        pids == {d.period_id : d \in kept}
    IN [c EXCEPT
          !.active_sessions = ids,
          !.sess = [s \in AllSessionIds |->
                      IF s \in Range(ids)
                      THEN session_from_dict(
                              data.sessions[CHOOSE i \in 1..Len(ids) : ids[i] = s])
                      ELSE @[s]],
          !.waiting_periods = pids,
          !.active_periods = @ \cup pids,
          !.periods = [p \in PeriodIds |->
                         IF p \in pids
                         THEN period_from_dict(CHOOSE d \in kept : d.period_id = p)
                         ELSE @[p]],
          !.detection_events = data.detection_events,
          !.task_queue = IF data.task_queue # <<>>
                         THEN [i \in 1..Len(data.task_queue) |->
                                 task_from_dict(data.task_queue[i])]
                         ELSE @,
          !.restart_count = data.statistics.restart_count,
          !.error_count = data.statistics.error_count,
          !.state = data.statistics.state,
          !.task_monitors = [s \in AllSessionIds |->
                               IF s \in Range(ids) THEN "monitoring" ELSE "absent"],
          !.running = @ \/ ids # <<>>,
          !.loop = IF ~c.running /\ ids # <<>> /\ @.phase = "idle"
                   THEN [@ EXCEPT !.phase = "sleep"] ELSE @]

\* RestartController.restore_state()
restore_state(c) ==
    IF load_state(c) = NoFile THEN c ELSE apply_state_data(c, load_state(c))

\* ------------------------------------------------------------ TimingManager
\* add_waiting_period (auto_start): <<period id, state afterwards>>
\* `duration_hours` is NoDuration when the caller passes none.  The period
\* is taken to be constructed although the call passes period_id=None.
add_waiting_period(c, s, duration_hours) ==
    LET p == Cardinality({q \in PeriodIds : c.periods[q].status # "none"}) + 1
        hours == IF duration_hours = NoDuration THEN c.default_cooldown_hours
                 ELSE duration_hours
        pe == start_waiting([NewPeriod EXCEPT !.session_id = s,
                                              !.duration_hours = hours], c.now)
    IN <<p, [c EXCEPT !.periods[p] = pe,
                      !.active_periods = @ \cup {p},
                      !.monitoring_active = TRUE,
                      !.threads.timing = IF c.monitoring_active THEN @ ELSE "turn"]>>

set_completion_callback(c, p) ==
    IF p \in c.active_periods THEN [c EXCEPT !.callbacks = @ \cup {p}] ELSE c

remove_waiting_period(c, p, mark_completed) ==
    IF p \notin c.active_periods THEN c
    ELSE [c EXCEPT !.periods[p] = IF mark_completed /\ @.status = "active"
                                  THEN complete(@) ELSE @,
                   !.active_periods = @ \ {p},
                   !.callbacks = @ \ {p}]

\* the ValueError of WaitingPeriod.cancel leaves the call before the removal
cancel_waiting_period_raises(c, p) ==
    p \in c.active_periods /\ cancel_raises(c.periods[p])

cancel_waiting_period(c, p) ==
    IF p \notin c.active_periods THEN c
    ELSE IF cancel_raises(c.periods[p]) THEN c
    ELSE remove_waiting_period([c EXCEPT !.periods[p] = cancel(@)], p, FALSE)

\* TimingManager.force_check_all_periods: each period of the registry is
\* checked and completed when due; no callback, no removal
force_check_all_periods(c) ==
    [c EXCEPT !.periods =
        [p \in PeriodIds |->
            IF p \in c.active_periods /\ check_and_complete(c.periods[p], c.now)
            THEN complete(c.periods[p]) ELSE c.periods[p]]]

fast_forward_period(c, p, seconds) ==
    IF p \notin c.active_periods \/ c.periods[p].status # "active" THEN c
    ELSE [c EXCEPT !.periods[p].start_time = @ - seconds,
                   !.periods[p].end_time = @ - seconds,
                   !.periods[p].forwarded = @ + seconds]

\* --------------------------------------------------------- RestartController
\* One write of _execute_task_queue; the process dies before the write when
\* its budget of accepted writes is used up.  <<sent, state, budget left>>
RECURSIVE send_all(_, _, _, _, _)
send_all(c, s, msgs, budget, code) ==
    IF msgs = <<>> THEN <<TRUE, c, budget>>
    ELSE LET c1 == IF budget = 0 THEN [c EXCEPT !.handles[s] = code] ELSE c IN
         IF send_input_ok(c1, s)
         THEN send_all([c1 EXCEPT !.sent = Append(@, Head(msgs))], s, Tail(msgs),
                       IF budget > 0 THEN budget - 1 ELSE budget, code)
         ELSE <<FALSE, c1, budget>>

\* The loop of _execute_task_queue over the popped tasks from index i on:
\* <<failed_index or 0, state>>
RECURSIVE dispatch(_, _, _, _, _, _)
dispatch(c, s, tasks, i, budget, code) ==
    IF i > Len(tasks) THEN <<0, c>>
    ELSE LET r == send_all(c, s, send_sequence(tasks[i]), budget, code) IN
         IF r[1] THEN dispatch(r[2], s, tasks, i + 1, r[3], code)
         ELSE <<i, r[2]>>

requeue_after_failed(q, tasks, failed_index) ==
    prepend(q, SubSeq(tasks, failed_index + 1, Len(tasks)))

\* Requeue of the tasks from the failed one on.
requeue(q, tasks, failed_index) ==
    prepend(q, SubSeq(tasks, failed_index, Len(tasks)))

execute_task_queue(c, s, env) ==
    LET popped == pop_all(c.task_queue)
        queued == popped[1]
        c0 == [c EXCEPT !.task_queue = popped[2]]
    IN IF queued = <<>> THEN c0
       ELSE LET r == dispatch(c0, s, queued, 1, env.budget, env.code) IN
            IF r[1] = 0 THEN r[2]
            ELSE Emit([r[2] EXCEPT !.task_queue = requeue(@, queued, r[1])],
                      "error_occurred:task_queue_dispatch")

restarted_session_unchanged(se, pid) == se

\* The session update of a successful restart.
restarted_session(se, pid) ==
    [(IF se.status = "waiting" THEN resume_from_waiting(se)
      ELSE [se EXCEPT !.status = "active"])
     EXCEPT !.claude_process_id = pid]

\* _initiate_restart up to the stop of the current process
restart_stop(c, s) ==
    stop_single_process(
        Emit([c EXCEPT !.state = "restarting"], "restart_initiated"), s)

\* _initiate_restart from the start of the new process
restart_launch(c2, s, env) ==
    LET r  == pm_start_monitoring(c2, s, env.launch)
        c3 == r[2]
    IN IF r[1]
       THEN LET c4 == [c3 EXCEPT
                         !.sess[s] = restarted_session(@, c3.monitored[s]),
                         !.task_monitors[s] = IF @ # "absent" THEN "monitoring" ELSE @,
                         !.state = "monitoring",
                         !.restart_count = @ + 1]
            IN Emit(save_current_state(execute_task_queue(c4, s, env)),
                    "restart_completed")
       ELSE Emit([c3 EXCEPT !.state = "error",
                            !.sess[s] = record_error(@, "restart_failed")],
                 "error_occurred:restart")

\* RestartController._initiate_restart
initiate_restart(c, s, env) == restart_launch(restart_stop(c, s), s, env)

handle_waiting_completion(c, p, env) ==
    LET s == c.periods[p].session_id IN
    IF s = NoSession \/ s \notin Range(c.active_sessions) THEN c
    ELSE [initiate_restart(c, s, env) EXCEPT !.waiting_periods = @ \ {p}]

\* TimingManager.check_waiting_periods, over the periods from id p on (the
\* dict order of active_periods is the order of creation).
RECURSIVE check_from(_, _, _)
check_from(c, p, envf) ==
    IF p > MaxPeriods THEN c
    ELSE IF p \in c.active_periods /\ check_and_complete(c.periods[p], c.now)
    THEN LET c1 == [c EXCEPT !.periods[p] = complete(@),
                             !.returned = Append(@, p)]
             c2 == IF p \in c1.callbacks
                   THEN handle_waiting_completion(
                            [c1 EXCEPT !.cb_calls[p] = @ + 1], p, envf[p])
                   ELSE c1
         IN check_from([c2 EXCEPT !.active_periods = @ \ {p},
                                  !.callbacks = @ \ {p}], p + 1, envf)
    ELSE check_from(c, p + 1, envf)

check_waiting_periods_forgetful(c, envf) ==
    [check_from([c EXCEPT !.returned = <<>>, !.checked = TRUE], 1, envf)
       EXCEPT !.periods = c.periods, !.active_periods = c.active_periods,
              !.callbacks = c.callbacks]

check_waiting_periods(c, envf) ==
    check_from([c EXCEPT !.returned = <<>>, !.checked = TRUE], 1, envf)

\* RestartController._check_waiting_periods: the loop over the returned ids
RECURSIVE handle_completed(_, _, _)
handle_completed(c, ids, envf) ==
    IF ids = <<>> THEN c
    ELSE handle_completed(
            IF Head(ids) \in c.waiting_periods
            THEN handle_waiting_completion(c, Head(ids), envf[Head(ids)])
            ELSE c,
            Tail(ids), envf)

controller_check_waiting_periods(c, envf) ==
    LET c1 == check_waiting_periods(c, envf) IN handle_completed(c1, c1.returned, envf)

waiting_detection_uncounted(c, s) == clear_output(c, s)

\* _handle_limit_detection for a session that is already waiting
waiting_detection(c, s) ==
    clear_output([c EXCEPT !.sess[s].detection_count = @ + 1,
                           !.detection_events = @ + 1], s)

\* _handle_limit_detection: <<raised, state afterwards>>
\* _handle_limit_detection from set_completion_callback on, for the period p
\* that add_waiting_period returned
handle_after_add(c, s, p) ==
    LET c2 == set_completion_callback(c, p)
    IN IF c2.sess[s].status # "active" THEN <<TRUE, c2>>
       ELSE <<FALSE,
              Emit(clear_output(save_current_state(
                     [c2 EXCEPT !.sess[s] = enter_waiting_period(@, p),
                                !.detection_events = @ + 1,
                                !.deferred = @ \ {s},
                                !.waiting_periods = @ \cup {p},
                                !.state = "waiting"]), s),
                   "limit_detected")>>

handle_limit_detection(c, s, age) ==
    IF c.sess[s].status = "waiting"
    THEN <<FALSE, waiting_detection(c, s)>>
    ELSE LET w == IF c.task_monitors[s] = "absent" THEN <<FALSE, "absent">>
                  ELSE should_wait_for_completion(c.task_monitors[s], age)
             c1 == [c EXCEPT !.task_monitors[s] = w[2]]
         IN IF w[1] THEN <<FALSE, [c1 EXCEPT !.deferred = @ \cup {s}]>>
            ELSE LET a == add_waiting_period(c1, s, cooldown_duration_hours)
                 IN handle_after_add(a[2], s, a[1])

handle_process_crash(c, s, env) ==
    IF s \notin Range(c.active_sessions) THEN c
    ELSE initiate_restart([c EXCEPT !.sess[s] = mark_crashed(@)], s, env)

\* The periods _stop_single_session cancels: those of the controller's
\* registry bound to the session.
RECURSIVE cancel_from(_, _, _)
cancel_from(c, s, p) ==
    IF p > MaxPeriods THEN c
    ELSE IF p \in c.waiting_periods /\ c.periods[p].session_id = s
    THEN IF cancel_waiting_period_raises(c, p)
         THEN Emit(c, "error_occurred:stop_monitoring")
         ELSE cancel_from([cancel_waiting_period(c, p)
                             EXCEPT !.waiting_periods = @ \ {p}], s, p + 1)
    ELSE cancel_from(c, s, p + 1)

\* an exception left the stop: stop_monitoring catches it and returns False
stop_raised(c) == "error_occurred:stop_monitoring" \in c.emitted

stop_single_session(c, s) ==
    IF s \notin Range(c.active_sessions) THEN c
    ELSE LET c1 == stop_single_process(c, s)
             c2 == [c1 EXCEPT !.task_monitors[s] = "absent"]
             c3 == cancel_from(c2, s, 1)
             c4 == [c3 EXCEPT !.sess[s] = session_stop_monitoring(@),
                              !.active_sessions = RemoveSeq(@, s)]
         IN IF stop_raised(c3) THEN c3
            ELSE save_current_state(
               IF c4.active_sessions = <<>> THEN [c4 EXCEPT !.state = "inactive"]
               ELSE c4)

RECURSIVE stop_each(_, _)
stop_each(c, ids) ==
    IF ids = <<>> \/ stop_raised(c) THEN c
    ELSE stop_each(stop_single_session(c, Head(ids)), Tail(ids))

\* _stop_all_sessions with _stop_controller, which an exception skips
stop_all_sessions(c) ==
    LET c1 == stop_each(c, c.active_sessions) IN
    IF stop_raised(c1) THEN c1
    ELSE [c1 EXCEPT !.running = FALSE, !.state = "inactive"]

\* RestartController.start_monitoring: <<started, state afterwards>>
\* _start_controller starts a control-loop thread whenever `running` is not
\* set; a thread that is still alive then stays alive beside the new one.
start_monitoring(c, s, outcome) ==
    LET r == pm_start_monitoring(c, s, outcome)
        c1 == r[2]
    IN IF r[1]
       THEN <<TRUE,
              save_current_state(
               [c1 EXCEPT
                 !.sess[s] = session_start_monitoring(NewSession, c1.monitored[s]),
                 !.task_monitors[s] = "monitoring",
                 !.active_sessions = Append(@, s),
                 !.running = TRUE,
                 !.loop = IF ~c1.running
                          THEN [IdleLoop EXCEPT !.phase = "sleep"] ELSE @,
                 !.threads.old = IF ~c1.running /\ c1.loop.phase # "idle"
                                 THEN c1.loop ELSE @,
                 !.state = "monitoring"])>>
       ELSE <<FALSE, Emit([c1 EXCEPT !.state = "error"],
                          "error_occurred:start_monitoring")>>

\* RestartController.get_system_status: the snapshot (without the clock
\* fields); error_message is the constant None
get_system_status(c) ==
    [state |-> c.state,
     active_sessions |-> Len(c.active_sessions),
     waiting_periods |-> Cardinality(c.waiting_periods),
     total_detections |-> c.detection_events,
     error_message |-> "None"]

\* _check_task_completions for the sessions from s on
RECURSIVE task_completions_from(_, _)
task_completions_from(c, s) ==
    IF s > LastSession THEN c
    ELSE IF c.task_monitors[s] = "absent" \/ s \notin Range(c.active_sessions)
    THEN task_completions_from(c, s + 1)
    ELSE LET g == get_recent_output(c, s, TaskLines) IN
         task_completions_from(
            [g[2] EXCEPT !.task_monitors[s] = process_output_lines(@, g[1])], s + 1)

check_task_completions(c) == task_completions_from(c, 1)

\* PatternDetector.detect_limit_message on one line
detect_limit_message(line) == line = "limit"

\* ------------------------------------------------------------ PatternDetector
\* Text is modelled word by word: a line is a sequence of lower-case words, a
\* text is the sequence of its lines (text.split("\n")), and `phrase in line`
\* is a contiguous run of words.  Confidences are in hundredths.
NewLine == "<nl>"

Words == {"[debug]", "usage", "limit", "exceeded", "quota", "wait", "5",
          "hours", "rate", "setting", "hello"}

RECURSIVE SeqsUpTo(_, _)
SeqsUpTo(S, n) ==
    IF n = 0 THEN {<<>>}
    ELSE LET shorter == SeqsUpTo(S, n - 1)
         IN shorter \cup {Append(q, w) : q \in shorter, w \in S}

\* One line of up to MaxWords words, or two lines of up to MaxBlockWords
\* words (a line followed by an empty line is a text that ends in "\n").
Texts ==
    {<<l>> : l \in SeqsUpTo(Words, MaxWords)}
    \cup {<<a, b>> : a, b \in SeqsUpTo(Words, MaxBlockWords)}

\* Regular expressions of three shapes: a literal phrase, `.*`, and
\* `first.*last`; len is len(pattern) in characters.
Literal(ws, n) == [kind |-> "literal", words |-> ws, len |-> n]

AnyPattern == [kind |-> "any", words |-> <<>>, len |-> 2]

Span(first, last, n) == [kind |-> "span", words |-> <<first, last>>, len |-> n]

\* SystemConfiguration.detection_patterns, the literal ones of the default
DefaultPatterns ==
    <<Literal(<<"usage", "limit", "exceeded">>, 20),
      Literal(<<"quota", "exceeded">>, 14)>>

PatternChoices ==
    {DefaultPatterns,
     <<AnyPattern>>,
     <<Literal(<<"limit">>, 5)>>,
     <<Literal(<<"usage", "limit">>, 11), Span("rate", "limit", 11)>>,
     <<Literal(<<"5-hour", "limit">>, 12)>>}

\* monitoring.confidence_threshold, in hundredths
Thresholds == {0, 50, 96, 100}

DefaultThreshold == 50

NoResult == [matched |-> FALSE, confidence |-> 0, path |-> "none"]

NoScore == [scored |-> FALSE]

NewDetector ==
    [patterns |-> DefaultPatterns, threshold |-> DefaultThreshold,
     text |-> <<>>, called |-> FALSE, result |-> NoResult, history |-> 0,
     score |-> NoScore]

Contains(q, phrase) ==
    \E i \in 1..(Len(q) - Len(phrase) + 1) :
        SubSeq(q, i, i + Len(phrase) - 1) = phrase

HasWord(q, w) == \E i \in 1..Len(q) : q[i] = w

HasAny(q, ws) == \E w \in ws : HasWord(q, w)

\* the text as one string: the lines with "\n" between them
RECURSIVE Join(_)
Join(text) ==
    IF text = <<>> THEN <<>>
    ELSE IF Len(text) = 1 THEN text[1]
    ELSE text[1] \o <<NewLine>> \o Join(Tail(text))

\* str.strip() of a string that holds only words and line breaks
RECURSIVE Strip(_)
Strip(q) ==
    IF q = <<>> THEN q
    ELSE IF Head(q) = NewLine THEN Strip(Tail(q))
    ELSE IF q[Len(q)] = NewLine THEN Strip(SubSeq(q, 1, Len(q) - 1))
    ELSE q

\* re.search(r"\b\d+\s*hours?\b"): \s* also matches a line break
TimeRef(q) ==
    \E i \in 1..Len(q) :
        /\ q[i] = "5"
        /\ \/ i + 1 <= Len(q) /\ q[i + 1] = "hours"
           \/ i + 2 <= Len(q) /\ q[i + 1] = NewLine /\ q[i + 2] = "hours"

\* re.search(r"\b\d+\b")
NumRef(q) == HasWord(q, "5")

SystemIndicators ==
    {"[debug]", "[info]", "[warn]", "[error]", "[trace]", "claude-code:",
     "system:", "debug:", "log:", "timestamp:", "thread:", "memory:",
     "loading", "initializing", "connecting"}

is_system_message(q) == HasAny(q, SystemIndicators)

fast_phrases ==
    {<<"usage", "limit", "exceeded">>, <<"quota", "exceeded">>,
     <<"rate", "limit">>, <<"limit", "exceeded">>}

FastConfidence == 95

strong_keywords ==
    {<<"usage", "limit", "exceeded">>, <<"rate", "limit">>,
     <<"limit", "exceeded">>, <<"please", "wait">>, <<"quota", "exceeded">>,
     <<"cooldown">>, <<"temporarily", "disabled">>, <<"locked", "for">>}

supporting_keywords == {"wait", "hours", "exceeded", "quota", "limit"}

error_indicators == {"error", "warning", "alert", "failed", "denied"}

generic_matches == {<<"limit">>, <<"usage", "limit">>, <<"wait">>}

neutral_terms == {"configuration", "setting", "updated", "requested"}

Min(a, b) == IF a < b THEN a ELSE b

Max(a, b) == IF a > b THEN a ELSE b

\* a variant that gives nothing for a number of hours
time_bonus_not_for_hours(full_line) ==
    IF TimeRef(full_line) THEN 0 ELSE IF NumRef(full_line) THEN 10 ELSE 0

\* the bonus of _calculate_confidence for time and numeric references
time_bonus(full_line) ==
    IF TimeRef(full_line) THEN 20 ELSE IF NumRef(full_line) THEN 10 ELSE 0

\* PatternDetector._calculate_confidence
calculate_confidence(pattern_len, matched_text, full_line) ==
    LET c0 == 30 + (IF pattern_len >= 25 THEN 25
                    ELSE IF pattern_len >= 15 THEN 15
                    ELSE IF pattern_len >= 8 THEN 5 ELSE 0)
        c1 == c0 + (IF \E k \in strong_keywords : Contains(full_line, k)
                    THEN 40 ELSE 0)
        supporting_hits ==
            Cardinality({k \in supporting_keywords : HasWord(full_line, k)})
        c2 == c1 + Min(20, supporting_hits * 5)
        c3 == c2 + time_bonus(full_line)
        c4 == c3 + (IF HasAny(full_line, error_indicators) THEN 10 ELSE 0)
        c5 == IF Strip(matched_text) \in generic_matches
              THEN c4 - 20 + (IF HasAny(full_line, {"reached", "exceeded", "hit"})
                              THEN 30 ELSE 0)
              ELSE Max(c4, 60)
        c6 == IF HasWord(full_line, "limit")
                   /\ HasAny(full_line, {"reached", "exceeded", "hit"})
              THEN Max(c5, 60) ELSE c5
        c7 == c6 - (IF HasAny(full_line, neutral_terms) THEN 10 ELSE 0)
    IN Min(100, Max(0, c7))

\* pattern.search(q).group(), <<>> when there is no match (no pattern here
\* matches the empty string in a text that is not empty)
search(pattern, q) ==
    IF pattern.kind = "any" THEN q
    ELSE IF pattern.kind = "literal"
    THEN IF Contains(q, pattern.words) THEN pattern.words ELSE <<>>
    ELSE LET firsts == {i \in 1..Len(q) : q[i] = pattern.words[1]}
             pairs  == {i \in firsts :
                          \E j \in (i + 1)..Len(q) : q[j] = pattern.words[2]}
         IN IF pairs = {} THEN <<>>
            ELSE LET i == CHOOSE i \in pairs : \A k \in pairs : i <= k
                     j == CHOOSE j \in (i + 1)..Len(q) :
                            /\ q[j] = pattern.words[2]
                            /\ \A k \in (j + 1)..Len(q) : q[k] # pattern.words[2]
                 IN SubSeq(q, i, j)

\* PatternDetector._heuristic_detection: the confidence, 0 for None
heuristic_detection(q) ==
    LET has_usage_limit == HasWord(q, "usage") /\ HasWord(q, "limit")
        has_rate_limit  == Contains(q, <<"rate", "limit">>)
        has_quota_limit == HasWord(q, "quota") /\ HasWord(q, "exceeded")
        has_exceeded    == HasAny(q, {"exceeded", "reached"})
        has_wait        == HasWord(q, "wait")
        has_time_ref    == TimeRef(q)
    IN IF is_system_message(q) THEN 0
       ELSE IF has_quota_limit THEN 85
       ELSE IF has_usage_limit /\ has_exceeded THEN 90
       ELSE IF has_usage_limit /\ has_wait /\ has_time_ref THEN 85
       ELSE IF has_rate_limit /\ (has_time_ref \/ has_exceeded) THEN 80
       ELSE IF has_wait /\ has_time_ref THEN 75
       ELSE 0

\* The loop over compiled_patterns of both checks: `block` is the form of
\* the comparison in _check_text_block_for_patterns.
RECURSIVE best_from(_, _, _, _, _)
best_from(patterns, i, q, best, block) ==
    IF i > Len(patterns) THEN best
    ELSE LET match == search(patterns[i], q)
             confidence == calculate_confidence(patterns[i].len, match, q)
             better == \/ confidence > best.confidence
                       \/ /\ block => best.matched
                          /\ confidence = best.confidence
                          /\ Len(match) > Len(best.text)
         IN best_from(patterns, i + 1, q,
                IF match # <<>> /\ better
                THEN [matched |-> TRUE, confidence |-> confidence, text |-> match]
                ELSE best,
                block)

NoBest == [matched |-> FALSE, confidence |-> 0, text |-> <<>>]

\* what both checks do with the best match and the heuristic
best_or_heuristic(d, q, block) ==
    LET best == best_from(d.patterns, 1, q, NoBest, block)
        heuristic == heuristic_detection(q)
    IN IF best.matched /\ best.confidence >= d.threshold
       THEN [matched |-> TRUE, confidence |-> best.confidence, path |-> "pattern"]
       ELSE IF heuristic # 0 /\ heuristic >= d.threshold
       THEN [matched |-> TRUE, confidence |-> heuristic, path |-> "heuristic"]
       ELSE NoResult

\* PatternDetector._check_line_for_patterns
check_line_for_patterns(d, line) ==
    IF line = <<>> THEN NoResult
    ELSE IF is_system_message(line) THEN NoResult
    ELSE IF \E phrase \in fast_phrases : Contains(line, phrase)
    THEN [matched |-> TRUE, confidence |-> FastConfidence, path |-> "fast"]
    ELSE best_or_heuristic(d, line, FALSE)

\* the search of the whole block, after the system-message filter
block_search(d, text) ==
    LET q == Join(text)
        r == best_or_heuristic(d, q, TRUE)
    IN IF Strip(q) = <<>> THEN NoResult
       ELSE [r EXCEPT !.path = IF r.matched THEN "block-" \o @ ELSE @]

\* the block check without the system-message filter
check_text_block_unfiltered(d, text) == block_search(d, text)

\* PatternDetector._check_text_block_for_patterns
check_text_block_for_patterns(d, text) ==
    IF Len(text) = 1 /\ is_system_message(Join(text)) THEN NoResult
    ELSE block_search(d, text)

RECURSIVE first_line_match(_, _, _)
first_line_match(d, text, i) ==
    IF i > Len(text) THEN NoResult
    ELSE LET r == check_line_for_patterns(d, text[i])
         IN IF r.matched THEN r ELSE first_line_match(d, text, i + 1)

\* PatternDetector.detect_limit_message
detect_limit_message_text(d, text) ==
    LET line_result == first_line_match(d, text, 1)
        result == IF line_result.matched THEN line_result
                  ELSE check_text_block_for_patterns(d, text)
    IN [d EXCEPT !.text = text, !.called = TRUE, !.result = result,
                 !.history = IF result.matched THEN @ + 1 ELSE @]

\* ----------------------------------------------- StateManager, step by step
\* The files of the StateManager and the threads inside save_state.  A file is
\* missing, or holds a complete document ("ok": json.load gives a dict with
\* a "state" key), a document json.load rejects ("garbage": empty, cut off)
\* or a JSON value without a "state" key ("nostate").
Missing == [kind |-> "missing", data |-> 0]

\* json.dump(save_data, f) completed
Document(v) == [kind |-> "ok", data |-> v]

\* open(temp_file, 'w') done, json.dump not completed
Partial(v) == [kind |-> "garbage", data |-> v]

Payloads == 1..MaxPayload

Savers == {"s1", "s2"}

\* os.name
OsNames == {"posix", "nt"}

\* load_state has not been called
NotLoaded == [called |-> FALSE, from_backup |-> FALSE, state |-> 0]

\* StateManager.__init__ in an empty state directory
NewStateManager ==
    [os_name |-> "posix", primary |-> Missing, temp |-> Missing,
     backups |-> <<>>, lock |-> "none", cached |-> 0,
     pc |-> [t \in Savers |-> "idle"],
     data |-> [t \in Savers |-> 0],
     before |-> [t \in Savers |-> Missing],
     loaded |-> NotLoaded]

\* StateManager._cleanup_old_backups: the newest max_backups by mtime stay.
\* The backups are kept newest first: shutil.copy2 gives a backup the mtime
\* of the primary file it copies, and the primary only gets newer.
cleanup_old_backups(bs) == SubSeq(bs, 1, Min(Len(bs), max_backups))

\* StateManager._create_backup; every error inside it is caught
create_backup(f, fail) ==
    IF fail THEN f
    ELSE [f EXCEPT !.backups = cleanup_old_backups(<<f.primary>> \o @)]

\* save_state up to `with self._lock`
save_enter(f, t, v) ==
    [f EXCEPT !.lock = t, !.pc[t] = "backup", !.data[t] = v,
              !.before[t] = f.primary]

\* save_state: if self.backup_on_save and os.path.exists(self.state_file)
save_backup(f, t, fail) ==
    LET g == IF f.primary # Missing THEN create_backup(f, fail) ELSE f
    IN [g EXCEPT !.pc[t] = "open"]

\* save_state: open(temp_file, 'w')
save_open(f, t, fail) ==
    IF fail THEN [f EXCEPT !.pc[t] = "except"]
    ELSE [f EXCEPT !.temp = Partial(f.data[t]), !.pc[t] = "dump"]

\* save_state: json.dump and the close of the temporary file
save_dump(f, t, fail) ==
    IF fail THEN [f EXCEPT !.pc[t] = "except"]
    ELSE [f EXCEPT !.temp = Document(f.data[t]),
                   !.pc[t] = IF f.os_name = "nt" /\ f.primary # Missing
                             THEN "remove" ELSE "rename"]

\* save_state on Windows: os.remove(self.state_file)
save_remove(f, t, fail) ==
    IF fail THEN [f EXCEPT !.pc[t] = "except"]
    ELSE [f EXCEPT !.primary = Missing, !.pc[t] = "rename"]

\* save_state returns: the lock is released, the locals are gone
save_return(f, t) ==
    [f EXCEPT !.pc[t] = "idle", !.lock = "none", !.data[t] = 0,
              !.before[t] = Missing]

\* save_state: os.rename(temp_file, self.state_file), then the cache and
\* `return True`
save_rename(f, t, fail) ==
    IF fail THEN [f EXCEPT !.pc[t] = "except"]
    ELSE save_return([f EXCEPT !.primary = f.temp, !.temp = Missing,
                               !.cached = f.data[t]], t)

\* save_state: the except branch removes the temporary file; `return False`
save_except(f, t, fail) ==
    save_return([f EXCEPT !.temp = IF fail THEN @ ELSE Missing], t)

\* json.load of a file raises (json.JSONDecodeError)
Unreadable(file) == file.kind = "garbage"

\* StateManager._load_from_backup: the state of the most recent backup, or
\* None (0)
load_from_backup(f) ==
    IF f.backups = <<>> THEN 0
    ELSE IF f.backups[1].kind = "ok" THEN f.backups[1].data
    ELSE 0

\* StateManager.load_state; every document save_state writes has a compatible
\* version
load_state_file(f) ==
    IF f.primary = Missing THEN [f EXCEPT !.loaded = [NotLoaded EXCEPT !.called = TRUE]]
    ELSE IF Unreadable(f.primary)
    THEN [f EXCEPT !.loaded = [called |-> TRUE, from_backup |-> TRUE,
                               state |-> load_from_backup(f)]]
    ELSE IF f.primary.kind = "nostate"
    THEN [f EXCEPT !.loaded = [NotLoaded EXCEPT !.called = TRUE]]
    ELSE [f EXCEPT !.cached = f.primary.data,
                   !.loaded = [called |-> TRUE, from_backup |-> FALSE,
                               state |-> f.primary.data]]

\* ------------------------------------------------------------------- actions
Begin == [Pack EXCEPT !.emitted = {}, !.returned = <<>>, !.checked = FALSE]

Created(c) == Cardinality({p \in PeriodIds : c.periods[p].status # "none"})

\* The launch attempts left under MaxLaunches.
CanLaunch(n) == launches + n <= MaxLaunches

DefaultEnv == [launch |-> "notfound", budget |-> -1, code |-> "deadN"]

Expired(c) == {p \in c.active_periods : check_and_complete(c.periods[p], c.now)}

\* One environment for each period that a check is about to complete.
EnvFuns(c) ==
    {[p \in PeriodIds |-> IF p \in Expired(c) THEN g[p] ELSE DefaultEnv] :
        g \in [Expired(c) -> Envs(c)]}

\* The state after RestartController(config): `hours` is the configuration's
\* timing.default_cooldown_hours.
Construct(hours) ==
    /\ now = 0
    /\ sess = [s \in AllSessionIds |-> NewSession]
    /\ active_sessions = <<>>
    /\ periods = [p \in PeriodIds |-> NewPeriod]
    /\ waiting_periods = {}
    /\ active_periods = {}
    /\ callbacks = {}
    /\ state = "inactive"
    /\ restart_count = 0
    /\ error_count = 0
    /\ detection_events = 0
    /\ task_monitors = [s \in AllSessionIds |-> "absent"]
    /\ monitored = [s \in AllSessionIds |-> 0]
    /\ handles = [s \in AllSessionIds |-> "none"]
    /\ out = [s \in AllSessionIds |-> <<>>]
    /\ archived = [s \in AllSessionIds |-> <<>>]
    /\ crash_events = <<>>
    /\ launches = 0
    /\ task_queue = <<>>
    /\ ntasks = 0
    /\ sent = <<>>
    /\ emitted = {}
    /\ cb_calls = [p \in PeriodIds |-> 0]
    /\ returned = <<>>
    /\ checked = FALSE
    /\ deferred = {}
    /\ monitoring_active = FALSE
    /\ running = FALSE
    /\ loop = [phase |-> "idle", todo |-> <<>>, cur |-> NoSession]
    /\ state_file = NoFile
    /\ default_cooldown_hours = hours
    /\ last_clock_check = 0
    /\ clock_drift_events = <<>>
    /\ threads = NoThreads
    /\ replaced = [s \in AllSessionIds |-> 0]
    /\ oc = NoCapture

\* The default configuration
Init == Construct(Cooldown) /\ pd = NewDetector /\ fs = NewStateManager /\ lk = NoLocks

\* A configuration that may set timing.default_cooldown_hours
InitConfigured ==
    /\ \E hours \in CooldownChoices : Construct(hours)
    /\ pd = NewDetector
    /\ fs = NewStateManager
    /\ lk = NoLocks

\* RestartController.start_monitoring with a fresh session id
StartMonitoring(s) ==
    /\ sess[s].status = "none"
    /\ CanLaunch(1)
    /\ \E outcome \in LaunchOutcomes :
          Unpack(start_monitoring(Begin, s, outcome)[2])

\* RestartController.stop_monitoring(session_id)
StopMonitoring(s) ==
    /\ s \in Range(active_sessions)
    /\ Unpack(stop_single_session(Begin, s))

\* RestartController.stop_monitoring() for all sessions
StopAll ==
    /\ running
    /\ Unpack(stop_all_sessions(Begin))

\* A line of output reaches the session's queue (the reader thread, or
\* ProcessMonitor.inject_output)
InjectOutput(s, line) ==
    /\ monitored[s] # 0
    /\ out' = [out EXCEPT ![s] = put_line(@, line)]
    /\ emitted' = {}
    /\ returned' = <<>>
    /\ checked' = FALSE
    /\ UNCHANGED <<now, sess, active_sessions, periods, waiting_periods,
                   active_periods, callbacks, state, restart_count, error_count,
                   detection_events, task_monitors, monitored, handles, archived,
                   crash_events, launches, task_queue, ntasks, sent, cb_calls, deferred, monitoring_active, running, loop, state_file,
                   default_cooldown_hours, last_clock_check, clock_drift_events, pd, fs, lk, threads, replaced, oc>>

\* The child process exits by itself
ProcessExit(s, code) ==
    /\ handles[s] = "running"
    /\ handles' = [handles EXCEPT ![s] = code]
    /\ emitted' = {}
    /\ returned' = <<>>
    /\ checked' = FALSE
    /\ UNCHANGED <<now, sess, active_sessions, periods, waiting_periods,
                   active_periods, callbacks, state, restart_count, error_count,
                   detection_events, task_monitors, monitored, out, archived,
                   crash_events, launches, task_queue, ntasks, sent, cb_calls, deferred, monitoring_active, running, loop, state_file,
                   default_cooldown_hours, last_clock_check, clock_drift_events, pd, fs, lk, threads, replaced, oc>>

\* ProcessMonitor.simulate_process_death with the registered crash callback
simulate_process_death(c, s, env) ==
    LET c1 == [c EXCEPT !.handles[s] = "none"]
        c2 == IF c1.monitored[s] # 0
              THEN record_crash_event(c1, s, c1.monitored[s], "sim") ELSE c1
    IN handle_process_crash(c2, s, env)

SimulateProcessDeath(s) ==
    /\ s \in Range(active_sessions) \/ monitored[s] # 0
    /\ CanLaunch(1)
    /\ \E env \in Envs(Pack) : Unpack(simulate_process_death(Begin, s, env))

\* RestartController.restart_claude_process(session_id)
RestartClaudeProcess(s) ==
    /\ s \in Range(active_sessions)
    /\ CanLaunch(1)
    /\ \E env \in Envs(Pack) : Unpack(initiate_restart(Begin, s, env))

\* TaskCompletionMonitor.set_task_in_progress on the session's monitor
SetTaskInProgress(s, on) ==
    /\ task_monitors[s] # "absent"
    /\ task_monitors' = [task_monitors EXCEPT ![s] = set_task_in_progress(@, on)]
    /\ emitted' = {}
    /\ returned' = <<>>
    /\ checked' = FALSE
    /\ UNCHANGED <<now, sess, active_sessions, periods, waiting_periods,
                   active_periods, callbacks, state, restart_count, error_count,
                   detection_events, monitored, handles, out, archived,
                   crash_events, launches, task_queue, ntasks, sent, cb_calls, deferred, monitoring_active, running, loop, state_file,
                   default_cooldown_hours, last_clock_check, clock_drift_events, pd, fs, lk, threads, replaced, oc>>

\* The wall clock advances.  The program reads the clock only against the
\* end times of running periods, so the clock is stepped while one is running.
Tick ==
    /\ now < MaxTime
    /\ \E p \in PeriodIds : periods[p].status = "active" /\ periods[p].end_time > now
    /\ now' = now + 1
    /\ emitted' = {}
    /\ returned' = <<>>
    /\ checked' = FALSE
    /\ UNCHANGED <<sess, active_sessions, periods, waiting_periods,
                   active_periods, callbacks, state, restart_count, error_count,
                   detection_events, task_monitors, monitored, handles, out,
                   archived, crash_events, launches, task_queue, ntasks, sent,
                   cb_calls, deferred, monitoring_active, running, loop, state_file,
                   default_cooldown_hours, last_clock_check, clock_drift_events, pd, fs, lk, threads, replaced, oc>>

\* TimingManager.fast_forward_period on a period that has not yet expired
FastForward(p, seconds) ==
    /\ p \in active_periods
    /\ periods[p].status = "active"
    /\ periods[p].end_time > now
    /\ Unpack(fast_forward_period(Begin, p, seconds))

\* datetime.now() is an integer here, so abs() is written out
Abs(x) == IF x < 0 THEN 0 - x ELSE x

\* TimingManager._adjust_periods_for_drift; drift_seconds is an absolute
\* value, so the branch for a negative one is never taken
adjust_periods_for_drift(c, drift_seconds) ==
    [c EXCEPT !.periods =
        [p \in PeriodIds |->
            IF p \in c.active_periods /\ c.periods[p].status = "active"
            THEN IF drift_seconds > 0
                 THEN [c.periods[p] EXCEPT !.end_time = @ - drift_seconds]
                 ELSE [c.periods[p] EXCEPT !.end_time = @ + drift_seconds]
            ELSE c.periods[p]]]

\* TimingManager.check_clock_drift
check_clock_drift(c) ==
    LET actual_elapsed   == c.now - c.last_clock_check
        expected_elapsed == check_frequency
        drift            == Abs(actual_elapsed - expected_elapsed)
    IN IF drift > clock_drift_tolerance
       THEN [adjust_periods_for_drift(
                [c EXCEPT !.clock_drift_events = Append(@, drift)], drift)
               EXCEPT !.last_clock_check = c.now]
       ELSE [c EXCEPT !.last_clock_check = c.now]

CheckClockDrift ==
    /\ Unpack(check_clock_drift(Begin))

\* The timing thread: one turn of TimingManager._monitoring_loop
timing_loop(c, envf) ==
    LET c1 == check_waiting_periods(check_clock_drift(c), envf) IN
    [c1 EXCEPT !.monitoring_active = (c1.active_periods # {}),
               !.threads.timing = IF c1.active_periods # {} THEN "turn" ELSE "none"]

TimingLoop ==
    /\ monitoring_active
    /\ CanLaunch(Cardinality(Expired(check_clock_drift(Pack))))
    /\ \E envf \in EnvFuns(check_clock_drift(Pack)) :
          Unpack(timing_loop(Begin, envf))

\* The control loop: the test of `while self.running`
loop_top(c) ==
    IF c.running
    THEN [c EXCEPT !.loop = [phase |-> "detect", todo |-> c.active_sessions,
                             cur |-> NoSession]]
    ELSE [c EXCEPT !.loop = [phase |-> "idle", todo |-> <<>>, cur |-> NoSession]]

LoopTop ==
    /\ loop.phase = "sleep"
    /\ Unpack(loop_top(Begin))

\* _check_for_limit_detections, one session: pull its output and scan it
detect_poll(c) ==
    IF c.loop.todo = <<>> THEN [c EXCEPT !.loop.phase = "wait"]
    ELSE LET s == Head(c.loop.todo)
             rest == Tail(c.loop.todo)
         IN IF c.sess[s].status \notin {"active", "waiting"}
            THEN [c EXCEPT !.loop.todo = rest]
            ELSE LET g == get_recent_output(c, s, DetectLines) IN
                 IF \E i \in 1..Len(g[1]) : detect_limit_message(g[1][i])
                 THEN [g[2] EXCEPT !.loop = [phase |-> "handle", todo |-> rest,
                                             cur |-> s]]
                 ELSE [g[2] EXCEPT !.loop.todo = rest]

LoopDetectPoll ==
    /\ loop.phase = "detect"
    /\ Unpack(detect_poll(Begin))

\* _handle_limit_detection for the detection just made, and the loop's
\* exception handler when it raises
detect_result(r) ==
    IF r[1]
    THEN Emit([r[2] EXCEPT !.error_count = @ + 1,
                           !.loop = [phase |-> "sleep", todo |-> <<>>,
                                     cur |-> NoSession]],
              "error_occurred:controller_loop")
    ELSE [r[2] EXCEPT !.loop.phase = "detect", !.loop.cur = NoSession]

detect_handle(c, age) ==
    detect_result(handle_limit_detection(c, c.loop.cur, age))

LoopDetectHandle ==
    /\ loop.phase = "handle"
    /\ sess[loop.cur].detection_count < MaxDetections
    /\ sess[loop.cur].status = "waiting" \/ Created(Pack) < MaxPeriods
    /\ \E age \in IF sess[loop.cur].status # "waiting"
                     /\ is_task_in_progress(task_monitors[loop.cur])
                  THEN Ages ELSE {"fresh"} :
          Unpack(detect_handle(Begin, age))

\* _check_waiting_periods
loop_check_waiting(c, envf) ==
    [controller_check_waiting_periods(c, envf) EXCEPT !.loop.phase = "tasks"]

LoopCheckWaiting ==
    /\ loop.phase = "wait"
    /\ CanLaunch(Cardinality(Expired(Pack)))
    /\ \E envf \in EnvFuns(Pack) : Unpack(loop_check_waiting(Begin, envf))

\* _check_task_completions, then the sleep until the next turn
loop_check_tasks(c) ==
    [check_task_completions(c) EXCEPT !.loop.phase = "sleep"]

LoopCheckTasks ==
    /\ loop.phase = "tasks"
    /\ Unpack(loop_check_tasks(Begin))

\* RestartController.add_task_to_queue
AddTask(shape) ==
    /\ ntasks < MaxTasks
    /\ ntasks' = ntasks + 1
    /\ task_queue' = add_task(task_queue,
                              [id |-> ntasks + 1, persona |-> shape.persona,
                               guideline |-> shape.guideline,
                               notes |-> shape.notes, post |-> shape.post])
    /\ state_file' = state_data([Pack EXCEPT !.task_queue = task_queue'])
    /\ UNCHANGED <<default_cooldown_hours, last_clock_check, clock_drift_events, pd, fs, lk, threads, replaced, oc>>
    /\ emitted' = {}
    /\ returned' = <<>>
    /\ checked' = FALSE
    /\ UNCHANGED <<now, sess, active_sessions, periods, waiting_periods,
                   active_periods, callbacks, state, restart_count, error_count,
                   detection_events, task_monitors, monitored, handles, out,
                   archived, crash_events, launches, sent, cb_calls, deferred, monitoring_active, running, loop>>

\* RestartController.remove_queued_tasks([i])
RemoveTask(i) ==
    /\ i \in 1..Len(task_queue)
    /\ task_queue' = remove_index(task_queue, i)
    /\ state_file' = state_data([Pack EXCEPT !.task_queue = task_queue'])
    /\ UNCHANGED <<default_cooldown_hours, last_clock_check, clock_drift_events, pd, fs, lk, threads, replaced, oc>>
    /\ emitted' = {}
    /\ returned' = <<>>
    /\ checked' = FALSE
    /\ UNCHANGED <<now, sess, active_sessions, periods, waiting_periods,
                   active_periods, callbacks, state, restart_count, error_count,
                   detection_events, task_monitors, monitored, handles, out,
                   archived, crash_events, launches, ntasks, sent, cb_calls, deferred,
                   monitoring_active, running, loop>>

\* RestartController.clear_task_queue
ClearQueue ==
    /\ task_queue # <<>>
    /\ task_queue' = <<>>
    /\ state_file' = state_data([Pack EXCEPT !.task_queue = task_queue'])
    /\ UNCHANGED <<default_cooldown_hours, last_clock_check, clock_drift_events, pd, fs, lk, threads, replaced, oc>>
    /\ emitted' = {}
    /\ returned' = <<>>
    /\ checked' = FALSE
    /\ UNCHANGED <<now, sess, active_sessions, periods, waiting_periods,
                   active_periods, callbacks, state, restart_count, error_count,
                   detection_events, task_monitors, monitored, handles, out,
                   archived, crash_events, launches, ntasks, sent, cb_calls, deferred,
                   monitoring_active, running, loop>>

\* The detection, waiting and restart cycle; the task queue stays empty and
\* no task is marked in progress.
Next ==
    \/ \E s \in SessionIds : StartMonitoring(s)
    \/ \E s \in SessionIds : StopMonitoring(s)
    \/ \E s \in SessionIds, line \in {"limit", "done"} : InjectOutput(s, line)
    \/ \E s \in SessionIds : SimulateProcessDeath(s)
    \/ \E s \in SessionIds : RestartClaudeProcess(s)
    \/ Tick
    \/ \E p \in PeriodIds, seconds \in {1, Cooldown} : FastForward(p, seconds)
    \/ TimingLoop
    \/ LoopTop
    \/ LoopDetectPoll
    \/ LoopDetectHandle
    \/ LoopCheckWaiting
    \/ LoopCheckTasks

Spec == Init /\ [][Next]_vars

\* The task queue and the restarts that dispatch it: no detections, no
\* waiting periods, the clock stands still.
NextQueue ==
    \/ \E s \in SessionIds : StartMonitoring(s)
    \/ \E s \in SessionIds : SimulateProcessDeath(s)
    \/ \E s \in SessionIds : RestartClaudeProcess(s)
    \/ \E shape \in TaskShapes : AddTask(shape)
    \/ \E i \in 1..MaxTasks : RemoveTask(i)
    \/ ClearQueue

SpecQueue == Init /\ [][NextQueue]_vars

\* Detections against tasks in progress: the control loop runs for ever, the
\* environment writes output and marks tasks.
NextTask ==
    \/ \E s \in SessionIds : StartMonitoring(s)
    \/ \E s \in SessionIds, line \in Lines : InjectOutput(s, line)
    \/ \E s \in SessionIds, on \in BOOLEAN : SetTaskInProgress(s, on)
    \/ LoopTop
    \/ LoopDetectPoll
    \/ LoopDetectHandle
    \/ LoopCheckWaiting
    \/ LoopCheckTasks

\* The next step of the control loop thread, wherever it stands.
LoopStep ==
    LoopTop \/ LoopDetectPoll \/ LoopDetectHandle \/ LoopCheckWaiting \/ LoopCheckTasks

\* The control loop is a thread of its own: it takes its next step whenever
\* it can.
SpecTask == Init /\ [][NextTask]_vars /\ WF_vars(LoopStep)

\* ==================================================================== claims
\* The active waiting periods bound to session s, over both registries.
BoundPeriods(ps, wp, ap, s) ==
    {p \in PeriodIds : /\ ps[p].session_id = s
                       /\ ps[p].status = "active"
                       /\ p \in wp \cup ap}

RestartSucceeded(ev) ==
    "restart_completed" \in ev /\ "error_occurred:restart" \notin ev

\* C1: a detection handled for a session that is already waiting adds exactly
\* one to the session's detection counter and opens no waiting period: the
\* controller's registry, the Countdown Registry's active set, the periods
\* themselves and the session's waiting-period reference stay as they were.
C1_WaitingDetectionOnlyCounts ==
    [][\A s \in SessionIds :
         (LoopDetectHandle /\ loop.cur = s /\ sess[s].status = "waiting")
         => /\ sess'[s].detection_count = sess[s].detection_count + 1
            /\ sess'[s].status = "waiting"
            /\ sess'[s].waiting_period_id = sess[s].waiting_period_id
            /\ waiting_periods' = waiting_periods
            /\ active_periods' = active_periods
            /\ periods' = periods]_vars

\* A waiting session that has counted a second detection while only one
\* waiting period was ever created.
C1_Witness ==
    \E s \in SessionIds :
        /\ sess[s].status = "waiting"
        /\ sess[s].detection_count = 2
        /\ Created(Pack) = 1

CrashOfActive(s) ==
    /\ s \in Range(active_sessions)
    /\ sess[s].status = "active"
    /\ SimulateProcessDeath(s)

NoPeriodTouched ==
    /\ periods' = periods
    /\ waiting_periods' = waiting_periods
    /\ active_periods' = active_periods

\* C2 (amended): a crash notification for an active session runs the restart
\* path at once and creates no waiting period.  When the relaunch succeeds the
\* session is active on the new process and the restart counter is one
\* higher; when the relaunch fails the session is left stopped, the restart
\* counter is unchanged and the error is recorded against the session.
C2_CrashRestartsOrStops ==
    [][\A s \in SessionIds :
         CrashOfActive(s)
         => /\ NoPeriodTouched
            /\ launches' = launches + 1
            /\ IF monitored'[s] # 0
               THEN /\ sess'[s].status = "active"
                    /\ sess'[s].claude_process_id = launches'
                    /\ restart_count' = restart_count + 1
               ELSE /\ sess'[s].status = "stopped"
                    /\ restart_count' = restart_count
                    /\ sess'[s].error_count = sess[s].error_count + 1
                    /\ state' = "error"]_vars

\* A session that never waited, restarted once, by a crash notification.
C2_Witness ==
    \E s \in SessionIds :
        /\ crash_events # <<>>
        /\ launches = 2
        /\ restart_count = 1
        /\ Created(Pack) = 0
        /\ sess[s].status = "active"
        /\ RestartSucceeded(emitted)

\* C2 as stated: a crash notification for an active session always ends with
\* the process relaunched, the session active, the restart counter one higher
\* and no waiting period created.
C2_CrashAlwaysRestarts ==
    [][\A s \in SessionIds :
         CrashOfActive(s)
         => /\ NoPeriodTouched
            /\ monitored'[s] # 0
            /\ sess'[s].status = "active"
            /\ restart_count' = restart_count + 1]_vars

C5_CheckFiresOnce ==
    [][checked'
       => \A p \in PeriodIds :
            LET due == /\ p \in active_periods
                       /\ periods[p].status = "active"
                       /\ now >= periods'[p].end_time
                hit == p \in Range(returned')
            IN /\ hit <=> due
               /\ hit => periods'[p].status = "completed" /\ p \notin active_periods'
               /\ cb_calls'[p] = cb_calls[p] + (IF hit THEN 1 ELSE 0)
               /\ cb_calls'[p] <= 1]_vars

\* A check that ran on a period completed by an earlier check, past its end
\* time, and returned nothing.
C5_Witness ==
    /\ checked
    /\ returned = <<>>
    /\ \E p \in PeriodIds :
          /\ periods[p].status = "completed"
          /\ cb_calls[p] = 1
          /\ now >= periods[p].end_time

PartOrder == <<"persona", "guideline", "notes", "description", "post">>

Carries(task, part) ==
    CASE part = "persona" -> task.persona
      [] part = "guideline" -> task.guideline
      [] part = "notes" -> task.notes
      [] part = "description" -> TRUE
      [] part = "post" -> task.post > 0

\* The messages of one task as the specification lists them.
ExpectedMessages(task) ==
    LET Has(part) == Carries(task, part)
        parts == SelectSeq(PartOrder, Has)
    IN [i \in 1..Len(parts) |-> [task |-> task.id, part |-> parts[i]]]

RECURSIVE ExpectedAll(_)
ExpectedAll(q) ==
    IF q = <<>> THEN <<>> ELSE ExpectedMessages(Head(q)) \o ExpectedAll(Tail(q))

\* A restart of session s that got as far as dispatching the queue: the
\* session runs on the process launched in this step.
RestartDispatched(s) ==
    /\ "restart_completed" \in emitted'
    /\ launches' = launches + 1
    /\ monitored'[s] = launches'

\* C6: when a send fails while task k of the queue [t1..tn] is dispatched,
\* the queue afterwards is exactly [tk..tn], the tasks before tk are not in
\* it (all their messages were written, and of tk only a proper prefix), and
\* the dispatch error event is emitted.
C6_FailedSendRequeuesFromFailedTask ==
    [][\A s \in SessionIds :
         (RestartDispatched(s) /\ task_queue # <<>> /\ handles'[s] # "running")
         => \E k \in 1..Len(task_queue) :
              /\ task_queue' = SubSeq(task_queue, k, Len(task_queue))
              /\ \A j \in 1..(k - 1) : task_queue[j] \notin Range(task_queue')
              /\ \E m \in 0..(Len(ExpectedMessages(task_queue[k])) - 1) :
                    sent' = sent \o ExpectedAll(SubSeq(task_queue, 1, k - 1))
                                 \o SubSeq(ExpectedMessages(task_queue[k]), 1, m)
              /\ "error_occurred:task_queue_dispatch" \in emitted']_vars

\* A dispatch that failed inside the second task: the first was written in
\* full, the queue starts again at the second, the error event is out.
C6_Witness ==
    /\ "error_occurred:task_queue_dispatch" \in emitted
    /\ Len(task_queue) = 2
    /\ task_queue[1].id = 2
    /\ \E i \in 1..Len(sent) : sent[i] = [task |-> 1, part |-> "description"]
    /\ \E i \in 1..Len(sent) : sent[i].task = 2

\* C7: after a successful restart with a non-empty queue and no send
\* failure, the inputs written are the queued tasks' messages in enqueue
\* order, each task's as persona, guideline, notes, description and
\* post-commands; every task is sent exactly once and the queue is empty.
C7_SuccessfulDispatchInOrder ==
    [][\A s \in SessionIds :
         (RestartDispatched(s) /\ task_queue # <<>> /\ handles'[s] = "running")
         => /\ sent' = sent \o ExpectedAll(task_queue)
            /\ \A i \in 1..Len(task_queue) :
                 Cardinality({j \in (Len(sent) + 1)..Len(sent') :
                                 sent'[j] = [task |-> task_queue[i].id,
                                             part |-> "description"]}) = 1
            /\ task_queue' = <<>>
            /\ "error_occurred:task_queue_dispatch" \notin emitted']_vars

\* A restart that has just written two queued tasks, one of them with every
\* optional part, and emptied the queue.
C7_Witness ==
    /\ RestartSucceeded(emitted)
    /\ "error_occurred:task_queue_dispatch" \notin emitted
    /\ task_queue = <<>>
    /\ ntasks = 2
    /\ \A id \in 1..2 : \E i \in 1..Len(sent) : sent[i] = [task |-> id, part |-> "description"]
    /\ \E i \in 1..Len(sent) : sent[i].part = "persona"
    /\ \E i \in 1..Len(sent) : sent[i].part = "post"

RemovalStep == ClearQueue \/ \E i \in 1..MaxTasks : RemoveTask(i)

RestartAttempt == "restart_initiated" \in emitted'

\* C8: in every step that is not an explicit removal or clear, each queued
\* task is afterwards still queued or has had all its messages written in
\* that step; a task leaves the queue only in a restart that completed; and a
\* restart attempt that fails before or during the relaunch leaves the queue
\* and the written inputs unchanged.
C8_NoTaskLost ==
    [][/\ ~RemovalStep
          => \A i \in 1..Len(task_queue) :
               \/ task_queue[i] \in Range(task_queue')
               \/ \E a \in Len(sent)..(Len(sent') - Len(ExpectedMessages(task_queue[i]))) :
                     SubSeq(sent', a + 1, a + Len(ExpectedMessages(task_queue[i])))
                       = ExpectedMessages(task_queue[i])
       /\ (~RemovalStep /\ \E i \in 1..Len(task_queue) :
                              task_queue[i] \notin Range(task_queue'))
          => "restart_completed" \in emitted'
       /\ (RestartAttempt /\ "restart_completed" \notin emitted')
          => task_queue' = task_queue /\ sent' = sent]_vars

\* A restart that failed at the relaunch with tasks queued, after an earlier
\* dispatch had broken off: the queue still holds the unsent tasks.
C8_Witness ==
    /\ "error_occurred:restart" \in emitted
    /\ task_queue # <<>>
    /\ sent # <<>>
    /\ ntasks = MaxTasks
    /\ task_queue[1].id = 2

\* ------------------------------------------------------ task-in-progress claim
\* C9 as stated: while a task is in progress a detected limit leaves the
\* session active with no waiting period; once the task is no longer in
\* progress the session enters waiting, with a period, without the limit
\* message being written a second time.
C9_DeferredDetectionEntersWaiting ==
    \A s \in SessionIds :
        /\ [](s \in deferred /\ is_task_in_progress(task_monitors[s])
                => /\ sess[s].status = "active"
                   /\ BoundPeriods(periods, waiting_periods, active_periods, s) = {})
        /\ (s \in deferred /\ ~is_task_in_progress(task_monitors[s]))
              ~> (/\ sess[s].status = "waiting"
                  /\ sess[s].waiting_period_id # NoPeriod)

\* ProcessMonitor.get_crash_events()
GetCrashEvents ==
    /\ Unpack(get_crash_events(Begin))

\* ProcessMonitor.stop_monitoring(session_id), called on the supervisor
PmStopMonitoring(s) ==
    /\ s \in Range(active_sessions)
    /\ Unpack(stop_single_process(Begin, s))

\* Child processes that exit by themselves, seen by the supervisor's refresh
\* from the control loop and from get_crash_events, with manual restarts,
\* simulated deaths and stops.
NextCrash ==
    \/ \E s \in SessionIds : StartMonitoring(s)
    \/ \E s \in SessionIds : StopMonitoring(s)
    \/ \E s \in SessionIds, code \in {"dead0", "deadN"} : ProcessExit(s, code)
    \/ \E s \in SessionIds : SimulateProcessDeath(s)
    \/ \E s \in SessionIds : RestartClaudeProcess(s)
    \/ \E s \in SessionIds : PmStopMonitoring(s)
    \/ GetCrashEvents
    \/ LoopTop
    \/ LoopDetectPoll
    \/ LoopCheckWaiting
    \/ LoopCheckTasks

SpecCrash == Init /\ [][NextCrash]_vars

\* A new RestartController after a restart of the system: nothing in
\* memory but the clock; the file, the ids already given out and the old
\* period objects (no longer referenced) stay.
fresh_controller(c) ==
    [c EXCEPT
       !.sess = [s \in AllSessionIds |-> NewSession],
       !.active_sessions = <<>>,
       !.waiting_periods = {},
       !.active_periods = {},
       !.callbacks = {},
       !.state = "inactive",
       !.restart_count = 0,
       !.error_count = 0,
       !.detection_events = 0,
       !.task_monitors = [s \in AllSessionIds |-> "absent"],
       !.monitored = [s \in AllSessionIds |-> 0],
       !.handles = [s \in AllSessionIds |-> "none"],
       !.out = [s \in AllSessionIds |-> <<>>],
       !.archived = [s \in AllSessionIds |-> <<>>],
       !.crash_events = <<>>,
       !.task_queue = <<>>,
       !.sent = <<>>,
       !.cb_calls = [p \in PeriodIds |-> 0],
       !.deferred = {},
       !.monitoring_active = FALSE,
       !.running = FALSE,
       !.loop = [phase |-> "idle", todo |-> <<>>, cur |-> NoSession],
       !.last_clock_check = c.now,
       !.clock_drift_events = <<>>,
       !.threads = NoThreads,
       !.replaced = [s \in AllSessionIds |-> 0],
       !.oc = NoCapture]

\* The system restarts and the new controller's StateManager.load_state()
\* is called, as in test_restart_cycle_state_persistence: the data is
\* returned and cached, on_state_loaded is not invoked.
LoadState ==
    /\ state_file # NoFile
    /\ Unpack(fresh_controller(Begin))

\* The system restarts and the new controller's restore_state() is called.
RestoreState ==
    /\ state_file # NoFile
    /\ Unpack(restore_state(fresh_controller(Begin)))

\* Detections, waiting periods and queued tasks, saved as the handlers save
\* them, and restarts of the system that load the file.
NextPersist ==
    \/ \E s \in SessionIds : StartMonitoring(s)
    \/ \E s \in SessionIds : InjectOutput(s, "limit")
    \/ \E shape \in {sh \in TaskShapes : sh.persona} : AddTask(shape)
    \/ Tick
    \/ LoopTop
    \/ LoopDetectPoll
    \/ LoopDetectHandle
    \/ LoopCheckWaiting
    \/ LoopCheckTasks
    \/ LoadState
    \/ RestoreState

SpecPersist == Init /\ [][NextPersist]_vars

\* The wall clock is set back (a manual change, or a time synchronisation).
ClockSetBack ==
    /\ now > 0
    /\ Unpack([Begin EXCEPT !.now = @ - 1])

\* Detections under either configured cooldown, the timing thread and the
\* clock check, with a clock that runs forward and may be set back.
NextTiming ==
    \/ \E s \in SessionIds : StartMonitoring(s)
    \/ \E s \in SessionIds : InjectOutput(s, "limit")
    \/ Tick
    \/ ClockSetBack
    \/ LoopTop
    \/ LoopDetectPoll
    \/ LoopDetectHandle
    \/ LoopCheckWaiting
    \/ LoopCheckTasks
    \/ TimingLoop
    \/ CheckClockDrift

SpecTiming == InitConfigured /\ [][NextTiming]_vars

\* TimingManager.force_check_all_periods()
ForceCheckAllPeriods ==
    /\ active_periods # {}
    /\ Unpack(force_check_all_periods(Begin))

\* TimingManager.cancel_waiting_period(period_id) on a period ever created
CancelWaitingPeriod(p) ==
    /\ periods[p].status # "none"
    /\ Unpack(cancel_waiting_period(Begin, p))

\* TimingManager.remove_waiting_period(period_id) with its default
\* mark_completed=True
RemoveWaitingPeriod(p) ==
    /\ p \in active_periods
    /\ Unpack(remove_waiting_period(Begin, p, TRUE))

\* The life of waiting periods: opened by detections, completed by the
\* checks of both threads, by a forced check or by a removal, cancelled by a
\* stop or by a caller of the registry.
NextPeriod ==
    \/ \E s \in SessionIds : StartMonitoring(s)
    \/ \E s \in SessionIds : StopMonitoring(s)
    \/ \E s \in SessionIds : InjectOutput(s, "limit")
    \/ Tick
    \/ LoopTop
    \/ LoopDetectPoll
    \/ LoopDetectHandle
    \/ LoopCheckWaiting
    \/ LoopCheckTasks
    \/ TimingLoop
    \/ ForceCheckAllPeriods
    \/ \E p \in PeriodIds : CancelWaitingPeriod(p)
    \/ \E p \in PeriodIds : RemoveWaitingPeriod(p)

SpecPeriod == Init /\ [][NextPeriod]_vars

\* The wall clock advances by one tick with no jump.  A live timing thread
\* wakes every check_frequency seconds, many times in a tick: it has made its
\* first turn before the tick begins, and each of its turns during the tick
\* finds the expected time elapsed and only moves last_clock_check.  The
\* turn at the end of the tick is a TimingLoop step.
ClockAdvance ==
    /\ now < MaxTime
    /\ monitoring_active => last_clock_check = now
    /\ Unpack([Begin EXCEPT !.now = @ + 1,
                            !.last_clock_check =
                                IF monitoring_active THEN now + 1 ELSE @])

\* The detect/wait/restart cycle under a clock that only advances normally,
\* also while no period is running.
NextClock ==
    \/ \E s \in SessionIds : StartMonitoring(s)
    \/ \E s \in SessionIds : InjectOutput(s, "limit")
    \/ ClockAdvance
    \/ LoopTop
    \/ LoopDetectPoll
    \/ LoopDetectHandle
    \/ LoopCheckWaiting
    \/ LoopCheckTasks
    \/ TimingLoop

SpecClock == Init /\ [][NextClock]_vars

\* Everything but the pattern detector, which its own calls leave alone.
controller_vars ==
    <<now, sess, active_sessions, periods, waiting_periods, active_periods,
      callbacks, state, restart_count, error_count, detection_events,
      task_monitors, monitored, handles, out, archived, crash_events,
      launches, task_queue, ntasks, sent, emitted, cb_calls, returned,
      checked, deferred, monitoring_active, running, loop, state_file,
      default_cooldown_hours, last_clock_check, clock_drift_events, lk, threads, replaced, oc>>

\* A detector made from a configuration, and the text it is about to get.
InitDetect ==
    /\ Construct(Cooldown)
    /\ fs = NewStateManager
    /\ lk = NoLocks
    /\ \E ps \in PatternChoices, th \in Thresholds, text \in Texts :
          pd = [NewDetector EXCEPT !.patterns = ps, !.threshold = th,
                                   !.text = text]

\* PatternDetector.detect_limit_message(text)
DetectLimitMessage ==
    /\ ~pd.called
    /\ pd' = detect_limit_message_text(pd, pd.text)
    /\ UNCHANGED <<controller_vars, fs>>

\* Keywords appended to a line, after a separator
Extensions ==
    {<<"quota", "exceeded">>, <<"wait", "5", "hours">>,
     <<"quota", "exceeded", "wait", "5", "hours">>,
     <<"usage", "limit", "exceeded">>, <<"rate", "limit">>,
     <<"please", "wait">>, <<"cooldown">>}

\* PatternDetector._calculate_confidence for a pattern that matches the
\* one-line text, on the line alone and on the line with keywords appended;
\* `rematched` is the score with the match searched again in the longer line.
CalculateConfidence ==
    /\ ~pd.score.scored
    /\ Len(pd.text) = 1
    /\ \E i \in 1..Len(pd.patterns), ext \in Extensions :
          LET line == pd.text[1]
              pattern == pd.patterns[i]
              match == search(pattern, line)
          IN /\ line # <<>>
             /\ match # <<>>
             /\ pd' = [pd EXCEPT !.score =
                        [scored |-> TRUE, pattern |-> i, extension |-> ext,
                         matched_text |-> match,
                         bare |-> calculate_confidence(pattern.len, match, line),
                         extended |-> calculate_confidence(pattern.len, match,
                                                           line \o ext),
                         rematched |-> calculate_confidence(pattern.len,
                                          search(pattern, line \o ext),
                                          line \o ext)]]
    /\ UNCHANGED <<controller_vars, fs>>

NextDetect ==
    \/ DetectLimitMessage
    \/ CalculateConfidence

SpecDetect == InitDetect /\ [][NextDetect]_vars

\* Everything but the StateManager's files, which its own calls leave alone.
manager_vars == <<controller_vars, pd>>

\* A StateManager on either operating system, in an empty state directory.
InitSave ==
    /\ Construct(Cooldown)
    /\ pd = NewDetector
    /\ lk = NoLocks
    /\ \E os \in OsNames : fs = [NewStateManager EXCEPT !.os_name = os]

\* A thread calls StateManager.save_state(state_data) and takes the lock
SaveState(t) ==
    /\ fs.pc[t] = "idle"
    /\ fs.lock = "none"
    /\ \E v \in Payloads : fs' = save_enter(fs, t, v)
    /\ UNCHANGED manager_vars

SaveBackup(t) ==
    /\ fs.pc[t] = "backup"
    /\ \E fail \in BOOLEAN : fs' = save_backup(fs, t, fail)
    /\ UNCHANGED manager_vars

SaveOpen(t) ==
    /\ fs.pc[t] = "open"
    /\ \E fail \in BOOLEAN : fs' = save_open(fs, t, fail)
    /\ UNCHANGED manager_vars

SaveDump(t) ==
    /\ fs.pc[t] = "dump"
    /\ \E fail \in BOOLEAN : fs' = save_dump(fs, t, fail)
    /\ UNCHANGED manager_vars

SaveRemove(t) ==
    /\ fs.pc[t] = "remove"
    /\ \E fail \in BOOLEAN : fs' = save_remove(fs, t, fail)
    /\ UNCHANGED manager_vars

SaveRename(t) ==
    /\ fs.pc[t] = "rename"
    /\ \E fail \in BOOLEAN : fs' = save_rename(fs, t, fail)
    /\ UNCHANGED manager_vars

SaveExcept(t) ==
    /\ fs.pc[t] = "except"
    /\ \E fail \in BOOLEAN : fs' = save_except(fs, t, fail)
    /\ UNCHANGED manager_vars

\* StateManager.load_state(), under the lock
LoadStateFile ==
    /\ fs.lock = "none"
    /\ fs' = load_state_file(fs)
    /\ UNCHANGED manager_vars

\* Something outside the program damages the primary state file
CorruptPrimary ==
    /\ fs.lock = "none"
    /\ fs.primary.kind = "ok"
    /\ \E kind \in {"garbage", "nostate"} :
          fs' = [fs EXCEPT !.primary.kind = kind, !.loaded = NotLoaded]
    /\ UNCHANGED manager_vars

NextSave ==
    \/ \E t \in Savers : SaveState(t)
    \/ \E t \in Savers : SaveBackup(t)
    \/ \E t \in Savers : SaveOpen(t)
    \/ \E t \in Savers : SaveDump(t)
    \/ \E t \in Savers : SaveRemove(t)
    \/ \E t \in Savers : SaveRename(t)
    \/ \E t \in Savers : SaveExcept(t)
    \/ LoadStateFile

SpecSave == InitSave /\ [][NextSave]_vars

NextBackup ==
    \/ NextSave
    \/ CorruptPrimary

SpecBackup == InitSave /\ [][NextBackup]_vars


\* ---------------------------------------------------- the two locks
\* check_waiting_periods is about to call a completion callback, which is
\* _handle_waiting_completion and takes the controller's lock
calls_back(c) == \E p \in Expired(c) : p \in c.callbacks

\* The periods _stop_single_session cancels; cancel_waiting_period takes the
\* timing manager's lock.
to_cancel(c, s) ==
    {p \in c.waiting_periods : c.periods[p].session_id = s}

\* _handle_limit_detection gets as far as add_waiting_period, which takes the
\* timing manager's lock
adds_period(c, s, age) ==
    /\ c.sess[s].status # "waiting"
    /\ \/ c.task_monitors[s] = "absent"
       \/ ~should_wait_for_completion(c.task_monitors[s], age)[1]

\* start_monitoring, under the controller's lock
LockedStart(s) ==
    /\ lk.ctl = "none"
    /\ StartMonitoring(s)

\* stop_monitoring(session_id) takes the controller's lock
StopEnter(s) ==
    /\ lk.ctl = "none"
    /\ s \in Range(active_sessions)
    /\ Unpack([Begin EXCEPT !.lk = [@ EXCEPT !.ctl = "api", !.stopping = s]])

\* _stop_single_session, with the timing manager's lock for each period it
\* cancels, and the release of the controller's lock
StopLeave ==
    /\ lk.ctl = "api"
    /\ to_cancel(Pack, lk.stopping) # {} => lk.tm = "none"
    /\ Unpack([stop_single_session(Begin, lk.stopping) EXCEPT !.lk = NoLocks])

\* _handle_limit_detection takes the controller's lock
DetectEnter ==
    /\ loop.phase = "handle"
    /\ lk.ctl = "none"
    /\ Unpack([Begin EXCEPT !.lk.ctl = "loop"])

\* _handle_limit_detection under the controller's lock, with the timing
\* manager's lock for add_waiting_period and set_completion_callback
DetectLeave ==
    /\ loop.phase = "handle"
    /\ lk.ctl = "loop"
    /\ sess[loop.cur].detection_count < MaxDetections
    /\ sess[loop.cur].status = "waiting" \/ Created(Pack) < MaxPeriods
    /\ \E age \in IF sess[loop.cur].status # "waiting"
                     /\ is_task_in_progress(task_monitors[loop.cur])
                  THEN Ages ELSE {"fresh"} :
          /\ adds_period(Pack, loop.cur, age) => lk.tm = "none"
          /\ Unpack([detect_handle(Begin, age) EXCEPT !.lk.ctl = "none"])

\* _check_waiting_periods: TimingManager.check_waiting_periods takes the
\* timing manager's lock
WaitEnter ==
    /\ loop.phase = "wait"
    /\ lk.tm = "none"
    /\ Unpack([Begin EXCEPT !.lk.tm = "loop"])

\* check_waiting_periods under the lock, its callbacks with the controller's
\* lock, then _handle_waiting_completion for what it returned
WaitLeave ==
    /\ loop.phase = "wait"
    /\ lk.tm = "loop"
    /\ Expired(Pack) # {} => lk.ctl = "none"
    /\ CanLaunch(Cardinality(Expired(Pack)))
    /\ \E envf \in EnvFuns(Pack) :
          Unpack([loop_check_waiting(Begin, envf) EXCEPT !.lk.tm = "none"])

\* The timing thread: check_clock_drift, then check_waiting_periods takes the
\* timing manager's lock
TimingEnter ==
    /\ monitoring_active
    /\ lk.tm = "none"
    /\ Unpack([check_clock_drift(Begin) EXCEPT !.lk.tm = "timing"])

\* The rest of the turn of _monitoring_loop
timing_check(c, envf) ==
    LET c1 == check_waiting_periods(c, envf) IN
    [c1 EXCEPT !.monitoring_active = (c1.active_periods # {}),
               !.threads.timing = IF c1.active_periods # {} THEN "turn" ELSE "none"]

\* check_waiting_periods under the lock, its callbacks with the controller's
\* lock
TimingLeave ==
    /\ lk.tm = "timing"
    /\ calls_back(Pack) => lk.ctl = "none"
    /\ CanLaunch(Cardinality(Expired(Pack)))
    /\ \E envf \in EnvFuns(Pack) :
          Unpack([timing_check(Begin, envf) EXCEPT !.lk.tm = "none"])

NextLocks ==
    \/ \E s \in SessionIds : LockedStart(s)
    \/ \E s \in SessionIds : StopEnter(s)
    \/ StopLeave
    \/ \E s \in SessionIds : InjectOutput(s, "limit")
    \/ Tick
    \/ LoopTop
    \/ LoopDetectPoll
    \/ DetectEnter
    \/ DetectLeave
    \/ WaitEnter
    \/ WaitLeave
    \/ LoopCheckTasks
    \/ TimingEnter
    \/ TimingLeave

SpecLocks == Init /\ [][NextLocks]_vars

\* ------------------------------------- detection against the timing thread
\* The launch of a restart succeeds and no queued message fails
OkEnv == [launch |-> "ok", budget |-> -1, code |-> "deadN"]

OkEnvFun == [p \in PeriodIds |-> OkEnv]

\* The period add_waiting_period created last
last_added(c) == Created(c)

\* start_monitoring with a launch that succeeds
StartOk(s) ==
    /\ sess[s].status = "none"
    /\ CanLaunch(1)
    /\ Unpack(start_monitoring(Begin, s, "ok")[2])

\* A limit line reaches the queue, as long as its detection can be counted
LimitOutput(s) ==
    /\ sess[s].detection_count + Len(out[s]) < MaxDetections
    /\ InjectOutput(s, "limit")

\* _handle_limit_detection up to the return of add_waiting_period, which has
\* started the timing thread; the whole of it when it adds no period
detect_add(c, age) ==
    LET s == c.loop.cur IN
    IF adds_period(c, s, age)
    THEN [add_waiting_period(
              [c EXCEPT !.task_monitors[s] =
                  IF @ = "absent" THEN @
                  ELSE should_wait_for_completion(@, age)[2]],
              s, cooldown_duration_hours)[2]
            EXCEPT !.loop.phase = "callback"]
    ELSE detect_handle(c, age)

DetectAdd ==
    /\ loop.phase = "handle"
    /\ sess[loop.cur].detection_count < MaxDetections
    /\ sess[loop.cur].status = "waiting" \/ Created(Pack) < MaxPeriods
    /\ \E age \in IF sess[loop.cur].status # "waiting"
                     /\ is_task_in_progress(task_monitors[loop.cur])
                  THEN Ages ELSE {"fresh"} :
          Unpack(detect_add(Begin, age))

\* _handle_limit_detection from set_completion_callback to its end
detect_finish(c) ==
    detect_result(handle_after_add(c, c.loop.cur, last_added(c)))

DetectFinish ==
    /\ loop.phase = "callback"
    /\ Unpack(detect_finish(Begin))

\* A turn of the timing thread; while _handle_limit_detection holds the
\* controller's lock a completion callback cannot run
TimingTurn ==
    /\ monitoring_active
    /\ loop.phase = "callback" => ~calls_back(check_clock_drift(Pack))
    /\ CanLaunch(Cardinality(Expired(check_clock_drift(Pack))))
    /\ Unpack(timing_loop(Begin, OkEnvFun))

\* _check_waiting_periods of the control loop
CheckWaitingOk ==
    /\ loop.phase = "wait"
    /\ CanLaunch(Cardinality(Expired(Pack)))
    /\ Unpack(loop_check_waiting(Begin, OkEnvFun))

NextLive ==
    \/ \E s \in SessionIds : StartOk(s)
    \/ \E s \in SessionIds : LimitOutput(s)
    \/ ClockAdvance
    \/ LoopTop
    \/ LoopDetectPoll
    \/ DetectAdd
    \/ DetectFinish
    \/ CheckWaitingOk
    \/ LoopCheckTasks
    \/ TimingTurn

\* ENABLED <<TimingTurn>>_vars, as a state predicate
TimingTurnEnabled ==
    /\ monitoring_active
    /\ loop.phase = "callback" => ~calls_back(check_clock_drift(Pack))
    /\ CanLaunch(Cardinality(Expired(check_clock_drift(Pack))))
    /\ timing_loop(Begin, OkEnvFun) # Pack

\* ENABLED <<CheckWaitingOk>>_vars, as a state predicate: the step always
\* moves the loop on
CheckWaitingEnabled ==
    /\ loop.phase = "wait"
    /\ CanLaunch(Cardinality(Expired(Pack)))

\* The clock keeps advancing, and the control loop and the timing thread keep
\* running: weak fairness of every step of theirs.  For the two steps that
\* run the restart path it is written out, with the predicates above for
\* ENABLED.
SpecLive ==
    /\ Init
    /\ [][NextLive]_vars
    /\ WF_vars(ClockAdvance)
    /\ WF_vars(LoopTop)
    /\ WF_vars(LoopDetectPoll)
    /\ WF_vars(DetectAdd)
    /\ WF_vars(DetectFinish)
    /\ WF_vars(LoopCheckTasks)
    /\ ([]<>~CheckWaitingEnabled \/ []<><<CheckWaitingOk>>_vars)
    /\ ([]<>~TimingTurnEnabled \/ []<><<TimingTurn>>_vars)

\* --------------------------------------- the timing thread, step by step
\* A turn of _monitoring_loop as far as the return of check_waiting_periods,
\* which releases the timing manager's lock
timing_turn(c, envf) ==
    IF ~c.monitoring_active THEN [c EXCEPT !.threads.timing = "none"]
    ELSE [check_waiting_periods(check_clock_drift(c), envf)
            EXCEPT !.threads.timing = "test"]

\* The end of the turn, under the lock again: the thread ends when no period
\* is left, else it waits check_frequency seconds for its next turn
timing_test(c) ==
    IF c.active_periods = {}
    THEN [c EXCEPT !.monitoring_active = FALSE, !.threads.timing = "none"]
    ELSE [c EXCEPT !.threads.timing = "turn"]

MonitoringTurn ==
    /\ threads.timing = "turn"
    /\ CanLaunch(Cardinality(Expired(check_clock_drift(Pack))))
    /\ \E envf \in EnvFuns(check_clock_drift(Pack)) :
          Unpack(timing_turn(Begin, envf))

MonitoringTest ==
    /\ threads.timing = "test"
    /\ Unpack(timing_test(Begin))

\* Periods added, completed and cancelled while the timing thread is at any
\* point of its turn, and restarts of the system that restore the saved
\* periods.
NextRegistry ==
    \/ \E s \in SessionIds : StartMonitoring(s)
    \/ \E s \in SessionIds : StopMonitoring(s)
    \/ \E s \in SessionIds : InjectOutput(s, "limit")
    \/ Tick
    \/ LoopTop
    \/ LoopDetectPoll
    \/ LoopDetectHandle
    \/ LoopCheckWaiting
    \/ LoopCheckTasks
    \/ MonitoringTurn
    \/ MonitoringTest
    \/ RestoreState

SpecRegistry == Init /\ [][NextRegistry]_vars

\* --------------------------------------------- the control-loop threads
\* The next step of the control-loop thread takes the controller's lock:
\* _handle_limit_detection, or _handle_waiting_completion for a period that
\* is due
needs_controller(c) ==
    \/ c.loop.phase = "handle"
    \/ /\ c.loop.phase = "wait"
       /\ \E p \in Expired(c) : p \in c.callbacks \/ p \in c.waiting_periods

\* stop_monitoring() takes the controller's lock, stops every session and
\* gets as far as the join of _stop_controller
StopAllEnter ==
    /\ lk.ctl = "none"
    /\ running
    /\ Unpack([stop_all_sessions(Begin) EXCEPT !.lk.ctl = "api"])

\* stop_monitoring() returns: the control loop has ended, or join(timeout=5)
\* gave up on a thread that waits for the lock this call holds (or an
\* exception skipped _stop_controller)
StopAllLeave ==
    /\ lk.ctl = "api"
    /\ running \/ loop.phase = "idle" \/ needs_controller(Pack)
    /\ Unpack([Begin EXCEPT !.lk.ctl = "none"])

\* start_monitoring once more, after all sessions were stopped
StartLater(s) ==
    /\ lk.ctl = "none"
    /\ active_sessions = <<>>
    /\ \A o \in SessionIds : sess[o].status # "none"
    /\ threads.old.phase = "idle"
    /\ StartMonitoring(s)

\* The steps of the control loop that take the controller's lock
HandleLocked ==
    /\ lk.ctl = "none"
    /\ LoopDetectHandle

WaitingLocked ==
    /\ needs_controller(Pack) => lk.ctl = "none"
    /\ LoopCheckWaiting

\* The thread that was left alive is the one that takes the step
swap(c) == [c EXCEPT !.loop = c.threads.old, !.threads.old = c.loop]

OldLoopTop ==
    /\ threads.old.phase = "sleep"
    /\ Unpack(swap(loop_top(swap(Begin))))

OldDetectPoll ==
    /\ threads.old.phase = "detect"
    /\ Unpack(swap(detect_poll(swap(Begin))))

OldDetectHandle ==
    /\ threads.old.phase = "handle"
    /\ lk.ctl = "none"
    /\ sess[threads.old.cur].detection_count < MaxDetections
    /\ sess[threads.old.cur].status = "waiting" \/ Created(Pack) < MaxPeriods
    /\ Unpack(swap(detect_handle(swap(Begin), "fresh")))

OldCheckWaiting ==
    /\ threads.old.phase = "wait"
    /\ needs_controller(swap(Pack)) => lk.ctl = "none"
    /\ CanLaunch(Cardinality(Expired(Pack)))
    /\ \E envf \in EnvFuns(Pack) :
          Unpack(swap(loop_check_waiting(swap(Begin), envf)))

OldCheckTasks ==
    /\ threads.old.phase = "tasks"
    /\ Unpack(swap(loop_check_tasks(swap(Begin))))

\* Sessions are started, all stopped and started again while the control
\* loop is anywhere in its turn.
NextThreads ==
    \/ \E s \in SessionIds : LockedStart(s)
    \/ \E s \in LaterSessions : StartLater(s)
    \/ StopAllEnter
    \/ StopAllLeave
    \/ \E s \in AllSessionIds : InjectOutput(s, "limit")
    \/ LoopTop
    \/ LoopDetectPoll
    \/ HandleLocked
    \/ WaitingLocked
    \/ LoopCheckTasks
    \/ OldLoopTop
    \/ OldDetectPoll
    \/ OldDetectHandle
    \/ OldCheckWaiting
    \/ OldCheckTasks

SpecThreads == Init /\ [][NextThreads]_vars

\* ------------------------------------------------------------ stop claims
StoppedAndRemoved(s) ==
    sess[s].status = "stopped" /\ s \notin Range(active_sessions)

RefreshFoundCrash(s) ==
    /\ loop' # loop
    /\ s \in Range(active_sessions)
    /\ monitored[s] # 0
    /\ handles[s] = "deadN"
    /\ monitored'[s] = 0

\* C12 as stated: whenever the supervisor's refresh finds a tracked process
\* exited with a non-zero code, a crash event for it is on record and the
\* registered crash callback has run, so the orchestrator's crash path (mark
\* the session crashed, attempt a restart) has started.
C12_RefreshRunsCrashPath ==
    [][\A s \in SessionIds :
         RefreshFoundCrash(s)
         => /\ \E i \in 1..Len(crash_events') : crash_events'[i].session_id = s
            /\ "restart_initiated" \in emitted']_vars

\* A refresh (from the control loop or from get_crash_events) cleaned up the
\* tracked process of s after it exited with a non-zero code: the session
\* was neither stopped nor relaunched in the step.
RefreshCleanedCrash(s) ==
    /\ monitored[s] # 0
    /\ handles[s] = "deadN"
    /\ monitored'[s] = 0
    /\ s \in Range(active_sessions')
    /\ launches' = launches

EventsOf(evs, s, pid) ==
    {i \in 1..Len(evs) : evs[i].session_id = s /\ evs[i].pid = pid}

\* C13 as stated: each crash the refresh finds is on record as exactly one
\* crash event carrying the pid of the crashed process, also when it is the
\* crash of a relaunched process of a session that crashed before; a refresh
\* that finds nothing new adds no event.
C13_EachCrashRecordedOnce ==
    [][/\ \A s \in SessionIds :
            RefreshCleanedCrash(s)
            => Cardinality(EventsOf(crash_events', s, monitored[s])) = 1
       /\ (\A s \in SessionIds : ~(monitored[s] # 0 /\ handles[s] = "deadN"))
            /\ launches' = launches
          => crash_events' = crash_events]_vars

\* --------------------------------------------------- restart failure claims
\* A step that made exactly one launch attempt, in a restart that failed.
FailedRestartStep ==
    /\ launches' = launches + 1
    /\ "error_occurred:restart" \in emitted'

C15_FailedStartLeavesNothing ==
    []["error_occurred:start_monitoring" \in emitted'
       => /\ active_sessions' = active_sessions
          /\ sess' = sess
          /\ launches' = launches + 1
          /\ \A s \in SessionIds :
                s \notin Range(active_sessions)
                => /\ monitored'[s] = 0
                   /\ out'[s] = <<>>
                   /\ handles'[s] = "none"]_vars

\* ------------------------------------------------------------- stop result
\* C16 as stated: the supervisor's stop of a session whose process has
\* already exited, noticed by a refresh or not, returns true and leaves no
\* tracking entry and no handle for the session.
C16_StopOfExitedProcessSucceeds ==
    [][\A s \in SessionIds :
         PmStopMonitoring(s) /\ handles[s] # "running"
         => /\ stop_single_process_result(Pack, s)
            /\ monitored'[s] = 0
            /\ handles'[s] = "none"]_vars

\* ------------------------------------------------------ recorded reasons
\* The step in which the supervisor dropped the process of s (a refresh
\* found it exited, or a restart stopped it and could not relaunch it), not
\* on the caller's request, and s is still active or waiting afterwards.
LostProcess(s) ==
    /\ monitored[s] # 0
    /\ monitored'[s] = 0
    /\ s \in Range(active_sessions')
    /\ sess'[s].status \in {"active", "waiting"}
    /\ ~PmStopMonitoring(s)

\* C17 as stated: when a session that stays active or waiting loses its
\* process (it exited, or a restart failed), the reason is in the session's
\* error fields and the status snapshot shows an error message.
C17_NoSilentLossOfProcess ==
    [][\A s \in SessionIds :
         LostProcess(s)
         => /\ sess'[s].last_error # ""
            /\ sess'[s].error_count > 0
            /\ get_system_status(Pack').error_message # "None"]_vars

\* ------------------------------------------------------- persistence claim
\* The file holds what _save_current_state would write now.
SavedNow == state_file = state_data(Pack)

\* C18 as stated: after a save, loading into a fresh orchestrator gives the
\* same session ids with their statuses (get_session of a session saved as
\* waiting returns it, waiting), the same waiting periods with status, start
\* and end time, the same detection events and the same queue in order.
C18_SaveLoadRoundTrip ==
    [][SavedNow /\ (LoadState \/ RestoreState)
       => /\ active_sessions' = active_sessions
          /\ \A s \in Range(active_sessions) : sess'[s].status = sess[s].status
          /\ waiting_periods' = waiting_periods
          /\ \A p \in waiting_periods :
                /\ periods'[p].status = periods[p].status
                /\ periods'[p].start_time = periods[p].start_time
                /\ periods'[p].end_time = periods[p].end_time
          /\ detection_events' = detection_events
          /\ task_queue' = task_queue]_vars

\* ------------------------------------------------------------ timing claims
\* Period p is opened by this step.
Opens(p) == periods[p].status = "none" /\ periods'[p].status = "active"

\* C19 as stated: when a detection on an active session opens a waiting
\* period, the session is waiting after the step, the period's duration is
\* the configured timing.default_cooldown_hours, and its end time is its
\* start time plus that duration.
C19_PeriodHasConfiguredCooldown ==
    [][\A p \in PeriodIds :
         Opens(p) /\ sess[periods'[p].session_id].status = "active"
         => /\ sess'[periods'[p].session_id].status = "waiting"
            /\ periods'[p].duration_hours = default_cooldown_hours
            /\ periods'[p].end_time
                 = periods'[p].start_time + default_cooldown_hours]_vars

\* The signed difference between the elapsed and the expected time: positive
\* after a forward jump, negative after a backward one.
Jump == (now - last_clock_check) - check_frequency

\* C20 as stated: when a clock check finds a difference beyond the tolerance,
\* every active period's end time moves by the drift in the direction of the
\* jump (earlier after a forward jump, later after a backward one) and one
\* drift event is recorded; within the tolerance nothing is adjusted.
C20_DriftAdjustsInDirection ==
    [][CheckClockDrift
       => IF Abs(Jump) > clock_drift_tolerance
          THEN /\ Len(clock_drift_events') = Len(clock_drift_events) + 1
               /\ \A p \in active_periods :
                     periods[p].status = "active"
                     => periods'[p].end_time = periods[p].end_time - Jump
          ELSE /\ clock_drift_events' = clock_drift_events
               /\ periods' = periods]_vars

\* C21 as stated: under a clock that advances with no jump, a period that
\* was never fast-forwarded is not completed, and no restart succeeds for its
\* session through it, before its duration has elapsed since its start,
\* however long the Countdown Registry existed before the period started.
C21_NoCompletionBeforeDuration ==
    [][\A p \in PeriodIds :
         /\ periods[p].status = "active"
         /\ periods[p].forwarded = 0
         /\ periods'[p].status = "completed"
         => now >= periods[p].start_time + periods[p].duration_hours]_vars

\* ------------------------------------------------------ period life claims
\* C22: a waiting period's status only moves forward (created and started,
\* then completed) or to cancelled from a status other than completed; a
\* completed period never changes its status again, a cancel of a completed
\* period is rejected and changes nothing in the registry, and the step that
\* cancels a period does not invoke its completion callback.
C22_PeriodStatusMonotone ==
    [][\A p \in PeriodIds :
         /\ periods[p].status = "none" => periods'[p].status \in {"none", "active"}
         /\ periods[p].status = "active"
              => periods'[p].status \in {"active", "completed", "cancelled"}
         /\ periods[p].status = "completed" => periods'[p].status = "completed"
         /\ periods[p].status = "cancelled" => periods'[p].status = "cancelled"
         /\ (periods[p].status # "cancelled" /\ periods'[p].status = "cancelled")
              => cb_calls'[p] = cb_calls[p]
         /\ (periods[p].status = "completed" /\ CancelWaitingPeriod(p))
              => UNCHANGED <<periods, active_periods, callbacks, cb_calls>>]_vars

\* A stop has just tried to cancel a completed period that the registry
\* still holds, and was rejected.
C22_Witness ==
    /\ "error_occurred:stop_monitoring" \in emitted
    /\ \E p \in active_periods : periods[p].status = "completed"

\* ----------------------------------------------------------- detector claims
\* C23: for a one-line text that is a system message (it carries a level
\* tag or a system prefix), detect_limit_message returns no event and adds
\* nothing to the detection history, whatever the patterns are.
C23_NoiseLineNotDetected ==
    (pd.called /\ Len(pd.text) = 1 /\ is_system_message(pd.text[1]))
    => (~pd.result.matched /\ pd.history = 0)

\* A noise line that holds a literal limit phrase went through a detector
\* whose only pattern matches everything.
C23_Witness ==
    /\ pd.called
    /\ pd.patterns = <<AnyPattern>>
    /\ pd.text = << <<"[debug]", "quota", "exceeded">> >>

\* C24 as stated: every event detect_limit_message returns has a confidence
\* of at least the configured threshold, on every detection path.
C24_EventMeetsThreshold ==
    (pd.called /\ pd.result.matched) => pd.result.confidence >= pd.threshold

\* C25: the confidence computed for a line with strong-signal keywords
\* appended is never lower than the one computed for the line alone, for the
\* same pattern and matched text, and also when the match is searched again
\* in the longer line.
C25_KeywordsNeverLowerConfidence ==
    pd.score.scored
    => /\ pd.score.extended >= pd.score.bare
       /\ pd.score.rematched >= pd.score.bare

\* A line whose only number gains "hours" behind it scored higher.
C25_Witness ==
    /\ pd.score.scored
    /\ pd.score.extension = <<"wait", "5", "hours">>
    /\ NumRef(pd.text[1])
    /\ pd.score.extended > pd.score.bare

\* ------------------------------------------------------- state file claims
\* C26: at every point of a state save, and after a failure at any step of
\* it, the primary state file holds the complete content it had before the
\* save or the complete new content, never a partial or missing file.
C26_PrimaryOldOrNew ==
    \A t \in Savers :
        fs.lock = t => fs.primary \in {fs.before[t], Document(fs.data[t])}

\* The state of the newest backup that is itself valid, or None (0)
NewestValid(bs) ==
    IF \E i \in 1..Len(bs) : bs[i].kind = "ok"
    THEN bs[CHOOSE i \in 1..Len(bs) :
                /\ bs[i].kind = "ok"
                /\ \A j \in 1..(i - 1) : bs[j].kind # "ok"].data
    ELSE 0

\* C27: when the primary state file is corrupted, loading returns the state
\* of the newest backup that is itself valid, skipping newer corrupt backups,
\* and returns no state only when no backup is valid.
C27_LoadsNewestValidBackup ==
    [][(LoadStateFile /\ Unreadable(fs.primary))
         => fs'.loaded.state = NewestValid(fs.backups)]_vars

\* ------------------------------------------------------------- lock claim
\* The thread holds the controller's lock and its next step needs the timing
\* manager's lock
HoldsCtlNeedsTm(th) ==
    /\ lk.ctl = th
    /\ \/ th = "api" /\ to_cancel(Pack, lk.stopping) # {}
       \/ th = "loop" /\ \E age \in Ages : adds_period(Pack, loop.cur, age)

\* The thread holds the timing manager's lock inside check_waiting_periods
\* and its next step is a completion callback
HoldsTmNeedsCtl(th) == lk.tm = th /\ calls_back(Pack)

HasActivePeriod(s) ==
    \E p \in waiting_periods :
        /\ periods[p].session_id = s
        /\ sess[s].waiting_period_id = p
        /\ p \in active_periods
        /\ periods[p].status = "active"

EndsInTime(s) ==
    /\ sess[s].waiting_period_id # NoPeriod
    /\ periods[sess[s].waiting_period_id].end_time <= MaxTime

C31_TaskPassLeavesUnseenLines ==
    [][LoopCheckTasks =>
          \A s \in SessionIds : monitored'[s] # 0 => out'[s] = out[s]]_vars

\* ------------------------------------------------- session life claim
\* The edges of a session's status: inactive (no session yet) to active,
\* active to waiting, waiting to active, and any status to stopped.
SessionEdge(a, b) ==
    \/ a = b
    \/ a = "none" /\ b = "active"
    \/ a = "active" /\ b = "waiting"
    \/ a = "waiting" /\ b = "active"
    \/ b = "stopped"

\* C32: every step changes a session's status along one of these edges only;
\* in particular a stopped session never becomes active or waiting again.
C32_SessionStatusEdges ==
    [][\A s \in SessionIds : SessionEdge(sess[s].status, sess'[s].status)]_vars

\* ------------------------------------------------- completion callback claim
\* C33: whatever step takes a period with a registered completion callback
\* from active to completed (a check by the timing thread or by the control
\* loop, a forced check of all periods, a removal marked as completed), that
\* step invokes the callback, for the first and only time, and takes the
\* period out of the timing manager's active set.
C33_CompletionCallsBackOnce ==
    [][\A p \in PeriodIds :
         (/\ periods[p].status = "active"
          /\ p \in callbacks
          /\ periods'[p].status = "completed")
         => /\ cb_calls'[p] = cb_calls[p] + 1
            /\ cb_calls'[p] = 1
            /\ p \notin active_periods']_vars

C35_OneControlLoop ==
    ~(loop.phase # "idle" /\ threads.old.phase # "idle")

\* ------------------------------------------- the processes of a session
\* ProcessMonitor.inject_output in its two steps.  _pick_session_id looks the
\* session up in monitored_processes without a lock; OutputCapture.inject_output
\* then takes the capture's lock, creates a queue when output_queues holds
\* none for the session, and puts the line.
InjectPick(s) ==
    /\ oc.inject = NoSession
    /\ monitored[s] # 0
    /\ Unpack([Begin EXCEPT !.oc.inject = s])

inject_put(c, line) ==
    LET s == c.oc.inject IN
    [c EXCEPT !.oc.queues = @ \cup {s},
              !.oc.inject = NoSession,
              !.out[s] = IF s \in c.oc.queues THEN put_line(@, line) ELSE <<line>>]

InjectPut(line) ==
    /\ oc.inject # NoSession
    /\ Unpack(inject_put(Begin, line))

\* _initiate_restart in two steps, under the controller's lock: the stop of
\* the current process, then the launch and what follows it.
RestartStop(s) ==
    /\ lk.ctl = "none"
    /\ s \in Range(active_sessions)
    /\ CanLaunch(1)
    /\ Unpack([restart_stop(Begin, s) EXCEPT !.lk.ctl = "api",
                                             !.threads.restart = s])

RestartLaunch ==
    /\ threads.restart # NoSession
    /\ \E env \in Envs(Pack) :
          Unpack([restart_launch(Pack, threads.restart, env)
                     EXCEPT !.lk.ctl = "none", !.threads.restart = NoSession])

NextProcs ==
    \/ \E s \in SessionIds : LockedStart(s)
    \/ \E s \in SessionIds : RestartStop(s)
    \/ RestartLaunch
    \/ \E s \in SessionIds, line \in Lines : InjectOutput(s, line)
    \/ \E s \in SessionIds : InjectPick(s)
    \/ \E line \in Lines : InjectPut(line)
    \/ \E s \in SessionIds, code \in {"dead0", "deadN"} : ProcessExit(s, code)

SpecProcs == Init /\ [][NextProcs]_vars

\* The live child processes that were launched for session s: the one behind
\* the launcher's handle, and those whose handle a later launch replaced.
LiveChildren(s) == replaced[s] + (IF Live(handles[s]) THEN 1 ELSE 0)

\* C36: in every reachable state every session has at most one live child
\* process: a launch for a session happens only when the process launched
\* for it before has been stopped or has exited, also after a failed start.
C36_OneLiveProcessPerSession ==
    \A s \in SessionIds : LiveChildren(s) <= 1

\* ------------------------------------------------ controller state claim
\* The edges of the controller-level state: inactive to starting to
\* monitoring, monitoring to waiting and back, waiting to restarting to
\* monitoring, error from any state but inactive, stopping from any state,
\* stopping to inactive.
StateEdge(a, b) ==
    \/ a = "inactive" /\ b = "starting"
    \/ a = "starting" /\ b = "monitoring"
    \/ a = "monitoring" /\ b = "waiting"
    \/ a = "waiting" /\ b = "monitoring"
    \/ a = "waiting" /\ b = "restarting"
    \/ a = "restarting" /\ b = "monitoring"
    \/ a # "inactive" /\ b = "error"
    \/ b = "stopping"
    \/ a = "stopping" /\ b = "inactive"

\* C37: every step that changes RestartController.state follows one of the
\* edges above: a start leaves inactive through starting, and inactive is
\* entered from stopping only.
C37_ControllerStateEdges ==
    [][state' # state => StateEdge(state, state')]_vars

\* -------------------------------------------------- detection histories
\* _check_for_limit_detections with the Pattern Engine's own record: every
\* line that detect_limit_message reports is appended to detection_history
\* before the orchestrator handles the event.
history_poll(c) ==
    LET c1 == detect_poll(c)
    IN IF c1.loop.phase = "handle" THEN [c1 EXCEPT !.pd.history = @ + 1] ELSE c1

HistoryDetectPoll ==
    /\ loop.phase = "detect"
    /\ pd.history <= history_cap
    /\ Unpack(history_poll(Begin))

HistoryDetectHandle ==
    /\ loop.phase = "handle"
    /\ detection_events <= history_cap
    /\ sess[loop.cur].status = "waiting" \/ Created(Pack) < MaxPeriods
    /\ \E age \in IF sess[loop.cur].status # "waiting"
                     /\ is_task_in_progress(task_monitors[loop.cur])
                  THEN Ages ELSE {"fresh"} :
          Unpack(detect_handle(Begin, age))

NextHistory ==
    \/ \E s \in SessionIds : StartMonitoring(s)
    \/ \E s \in SessionIds, line \in Lines : InjectOutput(s, line)
    \/ \E s \in SessionIds, on \in BOOLEAN : SetTaskInProgress(s, on)
    \/ LoopTop
    \/ HistoryDetectPoll
    \/ HistoryDetectHandle
    \/ LoopCheckWaiting
    \/ LoopCheckTasks
    \/ RestoreState

SpecHistory == Init /\ [][NextHistory]_vars

\* C38: in every reachable state the orchestrator's detection_events and the
\* Pattern Engine's detection_history each hold at most the cap of events.
C38_HistoriesCapped ==
    /\ detection_events <= history_cap
    /\ pd.history <= history_cap

\* ------------------------------------------- the output queue, step by step
\* A put into a queue that may be full, as _capture_output and inject_output
\* do it: put; on queue.Full remove the oldest line (get_nowait) and put
\* again.  Each call on the queue is one step; w is the thread's position.
\* The first put: done when there is room, else queue.Full is raised.
first_put(q, w, line) ==
    IF Len(q) < BufCap THEN <<Append(q, line), w>>
    ELSE <<q, [phase |-> "evict", line |-> line]>>

\* get_nowait in the handler of queue.Full: queue.Empty is swallowed and the
\* line given up
evict(q, w, rest) ==
    IF q = <<>> THEN <<q, [phase |-> rest, line |-> "none"]>>
    ELSE <<Tail(q), [w EXCEPT !.phase = "reput"]>>

\* the second put: queue.Full leaves the handler
second_put(q, w, rest, failed) ==
    IF Len(q) < BufCap THEN <<Append(q, w.line), [phase |-> rest, line |-> "none"]>>
    ELSE <<q, [phase |-> failed, line |-> "none"]>>

\* _capture_output: the reader thread of session s read a line of the process
ReaderLine(s, line) ==
    /\ oc.reader[s].phase = "read"
    /\ Live(handles[s])
    /\ LET r == first_put(out[s], oc.reader[s], line)
       IN Unpack([Begin EXCEPT !.out[s] = r[1], !.oc.reader[s] = r[2]])

ReaderEvict(s) ==
    /\ oc.reader[s].phase = "evict"
    /\ LET r == evict(out[s], oc.reader[s], "read")
       IN Unpack([Begin EXCEPT !.out[s] = r[1], !.oc.reader[s] = r[2]])

\* queue.Full from the second put is caught by the thread's outer handler:
\* the thread ends
ReaderReput(s) ==
    /\ oc.reader[s].phase = "reput"
    /\ LET r == second_put(out[s], oc.reader[s], "read", "ended")
       IN Unpack([Begin EXCEPT !.out[s] = r[1], !.oc.reader[s] = r[2]])

\* OutputCapture.inject_output by another thread, under the capture's lock
\* (which the reader thread does not take)
WriterLine(s, line) ==
    /\ monitored[s] # 0
    /\ \A x \in AllSessionIds : oc.writer[x].phase = "none"
    /\ LET r == first_put(out[s], oc.writer[s], line)
       IN Unpack([Begin EXCEPT !.out[s] = r[1], !.oc.writer[s] = r[2]])

WriterEvict(s) ==
    /\ oc.writer[s].phase = "evict"
    /\ LET r == evict(out[s], oc.writer[s], "none")
       IN Unpack([Begin EXCEPT !.out[s] = r[1], !.oc.writer[s] = r[2]])

\* queue.Full from the second put_nowait is raised to the caller
WriterReput(s) ==
    /\ oc.writer[s].phase = "reput"
    /\ LET r == second_put(out[s], oc.writer[s], "none", "none")
       IN Unpack([Begin EXCEPT !.out[s] = r[1], !.oc.writer[s] = r[2]])

\* ProcessMonitor.get_recent_output by the control loop or a caller
GetRecentOutput(s, n) ==
    /\ monitored[s] # 0
    /\ Unpack(get_recent_output(Begin, s, n)[2])

\* ProcessMonitor.clear_output
ClearOutput(s) ==
    /\ monitored[s] # 0
    /\ out[s] # <<>>
    /\ Unpack(clear_output(Begin, s))

NextCapture ==
    \/ \E s \in SessionIds : StartMonitoring(s)
    \/ \E s \in SessionIds, line \in Lines : ReaderLine(s, line)
    \/ \E s \in SessionIds : ReaderEvict(s)
    \/ \E s \in SessionIds : ReaderReput(s)
    \/ \E s \in SessionIds, line \in Lines : WriterLine(s, line)
    \/ \E s \in SessionIds : WriterEvict(s)
    \/ \E s \in SessionIds : WriterReput(s)
    \/ \E s \in SessionIds, n \in {TaskLines, DetectLines} : GetRecentOutput(s, n)
    \/ \E s \in SessionIds : ClearOutput(s)

SpecCapture == Init /\ [][NextCapture]_vars

\* The put of a line that found the queue full has ended in this step
PutEnded(w, w2) == w.phase \in {"evict", "reput"} /\ w2.phase \notin {"evict", "reput"}

\* C39: a session's queue never holds more than its capacity; a line that
\* arrived at a full queue is the newest line of the queue when its put ends,
\* whatever the other threads did in between; and the reader thread of a live
\* process never ends.
C39_FullBufferKeepsNewLine ==
    /\ [](\A s \in SessionIds : Len(out[s]) <= BufCap)
    /\ [](\A s \in SessionIds : oc.reader[s].phase # "ended")
    /\ [][\A s \in SessionIds :
            /\ PutEnded(oc.reader[s], oc'.reader[s])
               => out'[s] # <<>> /\ out'[s][Len(out'[s])] = oc.reader[s].line
            /\ PutEnded(oc.writer[s], oc'.writer[s])
               => out'[s] # <<>> /\ out'[s][Len(out'[s])] = oc.writer[s].line]_vars

====
